---- MODULE Spec2Model ----
(***************************************************************************)
(* Device-binding and session-exclusivity protocol of electron-device.     *)
(*                                                                         *)
(* The server side (AuthService, TokenService, DeviceService and the       *)
(* controllers in front of them) is modelled as a set of request workers   *)
(* that run against one shared database (tables User and Token).  Every    *)
(* awaited database call of a handler is one atomic step; what a handler   *)
(* computes between two awaits from its own local values belongs to the    *)
(* step that read them.  A request enters the model with its first         *)
(* database call: before it, it has neither read nor written anything.     *)
(*                                                                         *)
(* Time is counted in days.                                                *)
(***************************************************************************)
EXTENDS Integers, Sequences, FiniteSets, TLC

(***************************************************************************)
(* Bounds of the model                                                     *)
(***************************************************************************)
\* accounts ever created
MaxUsers == 3
\* tokens ever issued, in the specifications of the device and login checks
MaxTokens == 3
\* tokens ever issued, in the specifications that run every operation
SessionTokens == 2
\* the last half day of the clock
MaxTime == 2
\* the last half day of the clock where clean-up runs
MaxCleanupTime == 15
\* the bindings one installation creates
MaxBindings == 3
\* the last half year of the client clock
MaxClock == 3

(***************************************************************************)
(* Program constants                                                       *)
(***************************************************************************)
\* deviceHash.length >= 32
MinDeviceHashLen == 32
\* Date.now() + 24 * 60 * 60 * 1000, in half days
TokenTTL == 2

HexDigits ==
  {"0", "1", "2", "3", "4", "5", "6", "7", "8", "9",
   "a", "b", "c", "d", "e", "f", "A", "B", "C", "D", "E", "F"}

\* process.env.DEVICE_SALT || 'default-device-salt'
ServerSalt == <<"s", "a", "l", "t">>

(***************************************************************************)
(* Inputs                                                                  *)
(***************************************************************************)
Workers == {1, 2}

\* The JSON values of a request body: a string carries its characters, an
\* array its items, and a field that is absent is undefined.
Str(chars) == [type |-> "string", value |-> chars]

HashA == Str([i \in 1..32 |-> "a"])
HashB == Str([i \in 1..32 |-> "b"])
HashShort == Str(<<"a", "b", "c">>)
NoHash == [type |-> "undefined", value |-> <<>>]
\* 32 hex digits of both cases, 31 hex digits, 32 characters of which the
\* last is no hex digit, the empty string, and an array holding a hash
HashMixed == Str([i \in 1..32 |-> IF i % 2 = 0 THEN "F" ELSE "0"])
HashAlmost == Str([i \in 1..31 |-> "a"])
HashNonHex == Str([i \in 1..32 |-> IF i = 32 THEN "g" ELSE "a"])
HashEmpty == Str(<<>>)
HashArray == [type |-> "array", value |-> <<HashA>>]

DeviceHashes == {HashA, HashB, HashShort}
MalformedHashes ==
  {HashShort, HashAlmost, HashNonHex, HashEmpty, HashArray, NoHash}

Identities ==
  { [username |-> "alice", email |-> "alice@x"],
    [username |-> "bob", email |-> "bob@x"],
    [username |-> "carol", email |-> "carol@x"] }

TwoIdentities == {i \in Identities : i.username # "carol"}

LoginNames == {"alice", "bob", "alice@x"}
\* the password an account is registered with, and the passwords tried later
RegisterPasswords == {"Secret1"}
Passwords == {"Secret1", "Secret2"}

(***************************************************************************)
(* Pure functions                                                          *)
(***************************************************************************)
\* crypto.createHash('sha256').update(x).digest('hex'): 64 hex digits that
\* the input determines. The digest is stood for by the hex digits of the
\* input, repeated to 64 places, with "0" for any other character: distinct
\* for the distinct inputs of the model.
DigestLen == 64
LowerHex ==
  <<"0", "1", "2", "3", "4", "5", "6", "7", "8", "9",
    "a", "b", "c", "d", "e", "f">>
UpperHex ==
  <<"0", "1", "2", "3", "4", "5", "6", "7", "8", "9",
    "A", "B", "C", "D", "E", "F">>
HexValue(c) ==
  IF \E n \in 1..16 : LowerHex[n] = c
    THEN (CHOOSE n \in 1..16 : LowerHex[n] = c) - 1
    ELSE IF \E n \in 1..16 : UpperHex[n] = c
      THEN (CHOOSE n \in 1..16 : UpperHex[n] = c) - 1
      ELSE 0

\* The hex values of the characters of x at places i, i + 64, i + 128, ...
RECURSIVE Fold(_, _)
Fold(x, i) ==
  IF i > Len(x) THEN 0 ELSE HexValue(x[i]) + Fold(x, i + DigestLen)

\* An input longer than the digest is folded onto its 64 places.
Sha256(x) ==
  [i \in 1..DigestLen |->
     IF x = <<>> THEN "0"
     ELSE IF Len(x) > DigestLen THEN LowerHex[(Fold(x, i) % 16) + 1]
     ELSE LET c == x[((i - 1) % Len(x)) + 1]
          IN IF c \in HexDigits THEN c ELSE "0"]

\* String(v): a string is itself, an array is its items joined by commas
RECURSIVE JsString(_)
JsString(v) ==
  IF v.type = "string" THEN v.value
  ELSE IF v.type = "array"
    THEN IF v.value = <<>> THEN <<>>
         ELSE IF Len(v.value) = 1 THEN JsString(Head(v.value))
         ELSE JsString(Head(v.value)) \o <<",">> \o
              JsString([v EXCEPT !.value = Tail(v.value)])
    ELSE <<"u", "n", "d", "e", "f", "i", "n", "e", "d">>

\* !v
Falsy(v) == v.type = "undefined" \/ (v.type = "string" /\ v.value = <<>>)

\* /^[a-fA-F0-9]+$/.test(chars)
MatchesHex(chars) ==
  /\ chars # <<>>
  /\ \A i \in 1..Len(chars) : chars[i] \in HexDigits

\* A digest of the submitted hash alone, without the salt.
UnsaltedDeviceHash(deviceHash) == Sha256(JsString(deviceHash))

GenerateDeviceHash(deviceHash) ==
  Sha256(JsString(deviceHash) \o <<"-">> \o ServerSalt)

\* isValidDeviceHash accepting any value whose first character is a hex digit
IsValidDeviceHashUnanchored(deviceHash) ==
  /\ ~Falsy(deviceHash)
  /\ deviceHash.type = "string"
  /\ Len(deviceHash.value) >= MinDeviceHashLen
  /\ Head(deviceHash.value) \in HexDigits

IsValidDeviceHash(deviceHash) ==
  /\ ~Falsy(deviceHash)
  /\ deviceHash.type = "string"
  /\ Len(deviceHash.value) >= MinDeviceHashLen
  /\ MatchesHex(JsString(deviceHash))

\* express-validator chain body('deviceHash').isLength({min: 32}).matches(hex),
\* applied to the value as a string ('' when the field is absent)
ValidateDeviceHash(deviceHash) ==
  LET chars == IF deviceHash.type = "undefined" THEN <<>>
               ELSE JsString(deviceHash)
  IN /\ Len(chars) >= MinDeviceHashLen
     /\ MatchesHex(chars)

\* bcrypt.hash / bcrypt.compare
BcryptHash(password) == [bcrypt |-> password]
BcryptCompare(password, hash) == hash = BcryptHash(password)

\* utils/jwt generateToken: a signed payload, unique per issue
GenerateToken(userId, deviceHash, serial) ==
  [userId |-> userId, deviceHash |-> deviceHash, iat |-> serial]

NoToken == [userId |-> 0, deviceHash |-> Sha256(<<>>), iat |-> 0]
ForgedToken == [userId |-> 1, deviceHash |-> Sha256(<<>>), iat |-> 0]

\* utils/jwt verifyToken: the signature check
JwtVerify(token) == token.iat > 0

(***************************************************************************)
(* State                                                                   *)
(***************************************************************************)
VARIABLES
  users,        \* table User: records id, username, email, password, isActive
  tokens,       \* table Token: records id, token, userId, deviceHash,
                \*   expiresAt, isValid, createdAt, lastUsed, authPw
  nextUserId,   \* autoincrement of User.id
  nextTokenId,  \* autoincrement of Token.id
  now,          \* the server clock
  req,          \* per worker: the request it is handling
  resp,         \* the response sent by the last step, if it sent one
  app,          \* the Electron main process: "stopped" or "running"
  binding,      \* store key deviceBinding: deviceId, hardwareFingerprint,
                \*   bindTime; NoBinding when the key is absent
  hardware,     \* what os and node-machine-id report on this machine
  clock,        \* the client clock, in half years
  nextDeviceId, \* the draws of crypto.randomUUID() so far, plus one
  deviceBindingFile, \* the backup file .device_binding: "absent", "present"
  ipc,          \* the answer of the last ipcMain handler that ran
  sent          \* the request the renderer sent to the server last

server == <<users, tokens, nextUserId, nextTokenId, now, req, resp>>
client ==
  <<app, binding, hardware, clock, nextDeviceId, deviceBindingFile, ipc, sent>>
vars == <<users, tokens, nextUserId, nextTokenId, now, req, resp,
          app, binding, hardware, clock, nextDeviceId, deviceBindingFile,
          ipc, sent>>

\* this.store.get('deviceBinding', null)
NoBinding ==
  [deviceId |-> <<>>, hardwareFingerprint |-> <<>>, bindTime |-> <<>>]

\* os.hostname() of the machine, before and after it is renamed
HostA == <<"a", "1">>
HostB == <<"b", "2">>

\* iface.mac of the entries of os.networkInterfaces(): two physical
\* adapters, one adapter of each hypervisor, and the all-zero address
HyperVPrefix == <<"0", "0", ":", "1", "5", ":", "5", "d">>
VMwarePrefix == <<"0", "0", ":", "5", "0", ":", "5", "6">>
VirtualBoxPrefix == <<"0", "8", ":", "0", "0", ":", "2", "7">>
MacOf(prefix, last) ==
  prefix \o <<":", "0", "0", ":", "0", "0", ":", "0", last>>
MacEth == MacOf(<<"3", "c", ":", "5", "2", ":", "8", "2">>, "1")
MacWifi == MacOf(<<"a", "4", ":", "b", "b", ":", "6", "d">>, "2")
MacHyperV == MacOf(HyperVPrefix, "3")
MacVMware == MacOf(VMwarePrefix, "4")
MacVirtualBox == MacOf(VirtualBoxPrefix, "5")
ZeroMac == MacOf(<<"0", "0", ":", "0", "0", ":", "0", "0">>, "0")

\* One entry of os.networkInterfaces(): an address of an interface
Iface(mac, internal) == [mac |-> mac, internal |-> internal]

\* Object.values(os.networkInterfaces()).flat() of the machine as first seen
OneAdapter == <<Iface(MacEth, FALSE)>>

\* readable: machineIdSync and the os calls return rather than throw
Hardware ==
  [hostname : {HostA, HostB}, readable : BOOLEAN, interfaces : {OneAdapter}]

NoAnswer ==
  [channel |-> "none", ok |-> FALSE, hash |-> NoHash, reason |-> ""]

NoRequest ==
  [op |-> "none", username |-> "", email |-> "", password |-> "",
   deviceHash |-> NoHash]

\* rival: id of the token granted to another login of the same account from
\* another device while this login was being handled (0: none).
Idle ==
  [op |-> "idle", pc |-> "idle", username |-> "", email |-> "",
   password |-> "", deviceHash |-> NoHash,
   token |-> NoToken, userId |-> 0, tokenId |-> 0, rival |-> 0]

NoResp ==
  [op |-> "none", result |-> "", userId |-> 0, tokenId |-> 0, rival |-> 0,
   sessions |-> {}]

\* The response to request r: its outcome, the account it acted for and the
\* token row it issued or looked up.
Response(r, result) ==
  [op |-> r.op, result |-> result, userId |-> r.userId,
   tokenId |-> r.tokenId, rival |-> r.rival, sessions |-> {}]

\* A request is taken by the first worker that is free.
Free(w) ==
  /\ req[w].pc = "idle"
  /\ \A v \in Workers : v < w => req[v].pc # "idle"

\* isValid = true AND expiresAt > now
Live(t, time) == t.isValid /\ t.expiresAt > time

Init ==
  /\ users = {}
  /\ tokens = {}
  /\ nextUserId = 1
  /\ nextTokenId = 1
  /\ now = 0
  /\ req = [w \in Workers |-> Idle]
  /\ resp = NoResp
  /\ app = "stopped"
  /\ binding = NoBinding
  /\ hardware = [hostname |-> HostA, readable |-> TRUE,
                 interfaces |-> OneAdapter]
  /\ clock = 0
  /\ nextDeviceId = 1
  /\ deviceBindingFile = "absent"
  /\ ipc = NoAnswer
  /\ sent = NoRequest

(***************************************************************************)
(* TokenService                                                            *)
(***************************************************************************)
\* TokenService.generateToken: the row that prisma.token.create inserts.
\* authPw records the password hash the caller was authenticated against.
NewToken(userId, deviceHash, authPw) ==
  [id |-> nextTokenId,
   token |-> GenerateToken(userId, deviceHash, nextTokenId),
   userId |-> userId,
   deviceHash |-> deviceHash,
   expiresAt |-> now + TokenTTL,
   isValid |-> TRUE,
   createdAt |-> now,
   lastUsed |-> now,
   authPw |-> authPw]

\* prisma.token.updateMany({ where, data: { isValid: false } }), for the rows
\* its where clause selects
InvalidateWhere(rows) ==
  {IF t \in rows THEN [t EXCEPT !.isValid = FALSE] ELSE t : t \in tokens}

\* TokenService.invalidateToken
InvalidateToken(token) ==
  InvalidateWhere({t \in tokens : t.token = token})

\* invalidateAllUserTokens with update in place of updateMany: one row only
InvalidateOneUserToken(userId) ==
  LET mine == {t \in tokens : t.userId = userId}
  IN InvalidateWhere({t \in mine : \A x \in mine : t.id <= x.id})

\* updateMany({ data: { isValid: false } }) without a where clause
InvalidateTokensOfAll(userId) == InvalidateWhere(tokens)

\* TokenService.invalidateAllUserTokens
InvalidateAllUserTokens(userId) ==
  InvalidateWhere({t \in tokens : t.userId = userId})

\* invalidateOtherDeviceTokens without its deviceHash filter
InvalidateEveryDeviceToken(userId, currentDeviceHash) ==
  InvalidateWhere({t \in tokens : t.userId = userId /\ t.isValid})

\* TokenService.invalidateOtherDeviceTokens
InvalidateOtherDeviceTokens(userId, currentDeviceHash) ==
  InvalidateWhere({t \in tokens : /\ t.userId = userId
                                  /\ t.deviceHash # currentDeviceHash
                                  /\ t.isValid})

(***************************************************************************)
(* Request bookkeeping                                                     *)
(***************************************************************************)
\* Worker w moves on to the next await of the request it handles.
Goto(w, r) ==
  /\ req' = [req EXCEPT ![w] = r]
  /\ resp' = NoResp

\* The relation of a token row to its user row: a token row is stored only
\* for a user row that exists (the insert fails otherwise).
UserExists(userId) == \E u \in users : u.id = userId

\* Worker w sends the response of its request and becomes free.
Finish(w, r, result) ==
  /\ req' = [req EXCEPT ![w] = Idle]
  /\ resp' = Response(r, result)

At(w, op, pc) == req[w].op = op /\ req[w].pc = pc

(***************************************************************************)
(* DeviceService                                                           *)
(***************************************************************************)
\* DeviceService.isDeviceHashInUse, the rows its findFirst can return
DeviceHashMatches(deviceHash) ==
  {t \in tokens : /\ t.deviceHash = GenerateDeviceHash(deviceHash)
                  /\ Live(t, now)}

\* !!(existingToken && existingToken.user.isActive) for the returned row
TokenOwnerActive(t) == \E u \in users : u.id = t.userId /\ u.isActive

(***************************************************************************)
(* POST /register  -> AuthController.register -> AuthService.register      *)
(***************************************************************************)
\* the route's validators, the controller's check, isValidDeviceHash, and
\* const deviceInUse = await deviceService.isDeviceHashInUse(deviceHash)
Register(w, ident, password, deviceHash) ==
  /\ Free(w)
  /\ LET r == [Idle EXCEPT !.op = "register", !.username = ident.username,
                           !.email = ident.email, !.password = password,
                           !.deviceHash = deviceHash]
         matches == DeviceHashMatches(deviceHash)
     IN IF ~ValidateDeviceHash(deviceHash)
          THEN Finish(w, r, "VALIDATION_FAILED")
          ELSE IF Falsy(deviceHash)
            THEN Finish(w, r, "DEVICE_HASH_REQUIRED")
            ELSE IF ~IsValidDeviceHash(deviceHash)
              THEN Finish(w, r, "INVALID_DEVICE_HASH")
              ELSE IF matches = {}
                THEN Goto(w, [r EXCEPT !.pc = "reg_existing"])
                ELSE \E t \in matches :
                       IF TokenOwnerActive(t)
                         THEN Finish(w, r, "DEVICE_ALREADY_REGISTERED")
                         ELSE Goto(w, [r EXCEPT !.pc = "reg_existing"])
  /\ UNCHANGED <<users, tokens, nextUserId, nextTokenId, now>>
  /\ UNCHANGED client

\* const existingUser = await prisma.user.findFirst({ OR: [username, email] })
RegisterFindExisting(w) ==
  /\ At(w, "register", "reg_existing")
  /\ LET r == req[w]
         matches == {u \in users : u.username = r.username \/ u.email = r.email}
     IN IF matches = {}
          THEN Goto(w, [r EXCEPT !.pc = "reg_create"])
          ELSE \E u \in matches :
                 IF u.username = r.username
                   THEN Finish(w, r, "USERNAME_EXISTS")
                   ELSE Finish(w, r, "EMAIL_EXISTS")
  /\ UNCHANGED <<users, tokens, nextUserId, nextTokenId, now>>
  /\ UNCHANGED client

\* a table User without the unique index on email
EmailNotChecked(email, exceptId) == FALSE

\* the unique index on User.email (Prisma error P2002)
EmailTaken(email, exceptId) ==
  \E u \in users : u.email = email /\ u.id # exceptId

\* the unique index on User.username
UsernameTaken(username, exceptId) ==
  \E u \in users : u.username = username /\ u.id # exceptId

\* const user = await prisma.user.create(...)
RegisterCreateUser(w) ==
  /\ At(w, "register", "reg_create")
  /\ nextUserId <= MaxUsers
  /\ LET r == req[w]
     IN IF EmailTaken(r.email, 0) \/ UsernameTaken(r.username, 0)
          THEN /\ Finish(w, r, "STORAGE_ERROR")
               /\ UNCHANGED <<users, nextUserId>>
          ELSE /\ users' = users \cup
                     {[id |-> nextUserId, username |-> r.username,
                       email |-> r.email, password |-> BcryptHash(r.password),
                       isActive |-> TRUE]}
               /\ nextUserId' = nextUserId + 1
               /\ Goto(w, [r EXCEPT !.pc = "reg_token", !.userId = nextUserId,
                                    !.username = "", !.email = ""])
  /\ UNCHANGED <<tokens, nextTokenId, now>>
  /\ UNCHANGED client

\* const token = await tokenService.generateToken(user.id, processed hash)
RegisterCreateToken(w, cap) ==
  /\ At(w, "register", "reg_token")
  /\ nextTokenId <= cap
  /\ LET r == req[w]
         t == NewToken(r.userId, GenerateDeviceHash(r.deviceHash),
                       BcryptHash(r.password))
     IN IF UserExists(r.userId)
          THEN /\ tokens' = tokens \cup {t}
               /\ nextTokenId' = nextTokenId + 1
               /\ Finish(w, [r EXCEPT !.tokenId = t.id], "Granted")
          ELSE /\ Finish(w, r, "STORAGE_ERROR")
               /\ UNCHANGED <<tokens, nextTokenId>>
  /\ UNCHANGED <<users, nextUserId, now>>
  /\ UNCHANGED client

\* await prisma.token.create(...) rejects (the database is unreachable, a
\* write times out): generateToken has no catch, and the catch of register
\* and of login logs and rethrows; nothing written before is undone.
TokenCreateFails(w) ==
  /\ \/ At(w, "register", "reg_token")
     \/ At(w, "login", "login_token")
  /\ Finish(w, req[w], "STORAGE_ERROR")
  /\ UNCHANGED <<users, tokens, nextUserId, nextTokenId, now>>
  /\ UNCHANGED client

(***************************************************************************)
(* POST /login  -> AuthController.login -> AuthService.login               *)
(***************************************************************************)
\* the rows prisma.user.findFirst({ OR: [username, email], isActive }) can
\* return
FindUserByName(name, isActive) ==
  {u \in users : /\ u.username = name \/ u.email = name
                 /\ u.isActive = isActive}

\* login ending the sessions of the account on a wrong password
LoginEndingSessions(w, username, password, deviceHash) ==
  /\ Free(w)
  /\ LET r == [Idle EXCEPT !.op = "login", !.password = password,
                           !.deviceHash = deviceHash]
         matches == FindUserByName(username, TRUE)
     IN IF ~ValidateDeviceHash(deviceHash) \/ ~IsValidDeviceHash(deviceHash)
          THEN Finish(w, r, "VALIDATION_FAILED") /\ UNCHANGED tokens
          ELSE IF matches = {}
            THEN Finish(w, r, "INVALID_CREDENTIALS") /\ UNCHANGED tokens
            ELSE \E u \in matches :
                   IF ~BcryptCompare(password, u.password)
                     THEN /\ Finish(w, [r EXCEPT !.userId = u.id],
                                    "INVALID_CREDENTIALS")
                          /\ tokens' = InvalidateAllUserTokens(u.id)
                     ELSE /\ Goto(w, [r EXCEPT !.pc = "login_token",
                                               !.userId = u.id])
                          /\ UNCHANGED tokens
  /\ UNCHANGED <<users, nextUserId, nextTokenId, now>>
  /\ UNCHANGED client

\* the route's validators, the controller's check, isValidDeviceHash,
\* const user = await prisma.user.findFirst(...) and bcrypt.compare on the
\* row read
Login(w, username, password, deviceHash) ==
  /\ Free(w)
  /\ LET r == [Idle EXCEPT !.op = "login", !.password = password,
                           !.deviceHash = deviceHash]
         matches == FindUserByName(username, TRUE)
     IN IF ~ValidateDeviceHash(deviceHash)
          THEN Finish(w, r, "VALIDATION_FAILED")
          ELSE IF Falsy(deviceHash)
            THEN Finish(w, r, "DEVICE_HASH_REQUIRED")
            ELSE IF ~IsValidDeviceHash(deviceHash)
              THEN Finish(w, r, "INVALID_DEVICE_HASH")
              ELSE IF matches = {}
                THEN Finish(w, r, "INVALID_CREDENTIALS")
                ELSE \E u \in matches :
                       IF ~BcryptCompare(password, u.password)
                         THEN Finish(w, [r EXCEPT !.userId = u.id],
                                     "INVALID_CREDENTIALS")
                         ELSE Goto(w, [r EXCEPT !.pc = "login_token",
                                                !.userId = u.id])
  /\ UNCHANGED <<users, tokens, nextUserId, nextTokenId, now>>
  /\ UNCHANGED client

\* The logins of the same account from another device that are being handled
\* while worker w is granted token tokenId take note of it.
NoteGrant(w, r, tokenId) ==
  [v \in Workers |->
     IF v = w THEN Idle
     ELSE IF /\ req[v].op = "login"
             /\ req[v].userId = r.userId
             /\ req[v].deviceHash # r.deviceHash
            THEN [req[v] EXCEPT !.rival = tokenId]
            ELSE req[v]]

\* const token = await tokenService.generateToken(user.id, processed hash)
LoginCreateToken(w, cap) ==
  /\ At(w, "login", "login_token")
  /\ nextTokenId <= cap
  /\ LET r == req[w]
         t == NewToken(r.userId, GenerateDeviceHash(r.deviceHash),
                       BcryptHash(r.password))
     IN IF UserExists(r.userId)
          THEN /\ tokens' = tokens \cup {t}
               /\ nextTokenId' = nextTokenId + 1
               /\ req' = NoteGrant(w, r, t.id)
               /\ resp' = Response([r EXCEPT !.tokenId = t.id], "Granted")
          ELSE /\ Finish(w, r, "STORAGE_ERROR")
               /\ UNCHANGED <<tokens, nextTokenId>>
  /\ UNCHANGED <<users, nextUserId, now>>
  /\ UNCHANGED client

(***************************************************************************)
(* authenticateToken, the middleware in front of the protected routes      *)
(***************************************************************************)
\* The token rows a verification of `token` accepts at this moment.
Verifiable(token) ==
  {t \in tokens : /\ JwtVerify(token)
                  /\ t.token = token
                  /\ Live(t, now)
                  /\ \E u \in users : u.id = t.userId /\ u.isActive}

\* the lastUsed update writing back the whole row it read as valid
TouchRevalidates(tokenId) ==
  {IF t.id = tokenId THEN [t EXCEPT !.lastUsed = now, !.isValid = TRUE] ELSE t :
     t \in tokens}

\* the lastUsed update also sliding the expiry of the row
TouchExtendsExpiry(tokenId) ==
  {IF t.id = tokenId
     THEN [t EXCEPT !.lastUsed = now, !.expiresAt = now + TokenTTL]
     ELSE t : t \in tokens}

\* prisma.token.update({ where: { id }, data: { lastUsed: new Date() } })
Touch(tokenId) ==
  {IF t.id = tokenId THEN [t EXCEPT !.lastUsed = now] ELSE t : t \in tokens}

\* The protected request r of worker w passes the middleware with token row
\* t, which sets req.user, and goes on to its handler at pc; or is refused.
Authenticate(w, r, pc) ==
  IF Verifiable(r.token) = {}
    THEN /\ Finish(w, r, "UNAUTHORIZED")
         /\ UNCHANGED tokens
    ELSE \E t \in Verifiable(r.token) :
           /\ tokens' = Touch(t.id)
           /\ Goto(w, [r EXCEPT !.pc = pc, !.userId = t.userId,
                                !.tokenId = t.id])

(***************************************************************************)
(* GET /verify  -> AuthController.verify -> AuthService.verifyToken        *)
(***************************************************************************)
\* TokenService.verifyToken: verifyToken(token) of utils/jwt, then
\* const tokenRecord = await prisma.token.findFirst({ token, isValid, gt })
Verify(w, token) ==
  /\ Free(w)
  /\ LET r == [Idle EXCEPT !.op = "verify", !.token = token]
         matches == {t \in tokens : t.token = token /\ Live(t, now)}
     IN IF ~JwtVerify(token) \/ matches = {}
          THEN Finish(w, r, "TOKEN_INVALID")
          ELSE \E t \in matches :
                 Goto(w, [r EXCEPT !.pc = "verify_touch", !.tokenId = t.id,
                                   !.userId = token.userId])
  /\ UNCHANGED <<users, tokens, nextUserId, nextTokenId, now>>
  /\ UNCHANGED client

\* await prisma.token.update({ where: { id: tokenRecord.id }, lastUsed })
VerifyTouch(w) ==
  /\ At(w, "verify", "verify_touch")
  /\ LET r == req[w]
     IN IF \E t \in tokens : t.id = r.tokenId
          THEN /\ tokens' = Touch(r.tokenId)
               /\ Goto(w, [r EXCEPT !.pc = "verify_user"])
          ELSE /\ Finish(w, r, "STORAGE_ERROR")
               /\ UNCHANGED tokens
  /\ UNCHANGED <<users, nextUserId, nextTokenId, now>>
  /\ UNCHANGED client

\* const user = await prisma.user.findUnique({ id: decoded.userId })
VerifyUser(w) ==
  /\ At(w, "verify", "verify_user")
  /\ LET r == req[w]
     IN IF \E u \in users : u.id = r.userId /\ u.isActive
          THEN Finish(w, r, "Valid")
          ELSE Finish(w, r, "USER_INACTIVE")
  /\ UNCHANGED <<users, tokens, nextUserId, nextTokenId, now>>
  /\ UNCHANGED client

(***************************************************************************)
(* POST /logout  -> AuthController.logout -> AuthService.logout            *)
(***************************************************************************)
Logout(w, token) ==
  /\ Free(w)
  /\ Authenticate(w, [Idle EXCEPT !.op = "logout", !.token = token],
                  "logout_inv")
  /\ UNCHANGED <<users, nextUserId, nextTokenId, now>>
  /\ UNCHANGED client

\* await tokenService.invalidateToken(token)
LogoutInvalidate(w) ==
  /\ At(w, "logout", "logout_inv")
  /\ tokens' = InvalidateToken(req[w].token)
  /\ Finish(w, req[w], "OK")
  /\ UNCHANGED <<users, nextUserId, nextTokenId, now>>
  /\ UNCHANGED client

(***************************************************************************)
(* POST /force-logout  -> AuthController.forceLogout                       *)
(***************************************************************************)
ForceLogout(w, token) ==
  /\ Free(w)
  /\ Authenticate(w, [Idle EXCEPT !.op = "forceLogout", !.token = token],
                  "force_inv")
  /\ UNCHANGED <<users, nextUserId, nextTokenId, now>>
  /\ UNCHANGED client

\* await tokenService.invalidateAllUserTokens(userId)
ForceLogoutInvalidate(w) ==
  /\ At(w, "forceLogout", "force_inv")
  /\ tokens' = InvalidateAllUserTokens(req[w].userId)
  /\ Finish(w, req[w], "OK")
  /\ UNCHANGED <<users, nextUserId, nextTokenId, now>>
  /\ UNCHANGED client

(***************************************************************************)
(* POST /logout-other-devices  -> AuthController.logoutFromOtherDevices    *)
(***************************************************************************)
\* authenticateToken, then validateDeviceHashOptional and the controller's
\* check of the body
LogoutOther(w, token, deviceHash) ==
  /\ Free(w)
  /\ LET r == [Idle EXCEPT !.op = "logoutOther", !.token = token,
                           !.deviceHash = deviceHash]
     IN IF Verifiable(token) = {}
          THEN Finish(w, r, "UNAUTHORIZED") /\ UNCHANGED tokens
          ELSE \E t \in Verifiable(token) :
                 /\ tokens' = Touch(t.id)
                 /\ LET a == [r EXCEPT !.userId = t.userId, !.tokenId = t.id]
                    IN IF /\ deviceHash.type # "undefined"
                          /\ ~ValidateDeviceHash(deviceHash)
                         THEN Finish(w, a, "VALIDATION_FAILED")
                         ELSE IF Falsy(deviceHash)
                           THEN Finish(w, a, "DEVICE_HASH_REQUIRED")
                           ELSE Goto(w, [a EXCEPT !.pc = "other_inv"])
  /\ UNCHANGED <<users, nextUserId, nextTokenId, now>>
  /\ UNCHANGED client

\* await tokenService.invalidateOtherDeviceTokens(userId, processedDeviceHash)
LogoutOtherInvalidate(w) ==
  /\ At(w, "logoutOther", "other_inv")
  /\ tokens' = InvalidateOtherDeviceTokens(req[w].userId,
                  GenerateDeviceHash(req[w].deviceHash))
  /\ Finish(w, req[w], "OK")
  /\ UNCHANGED <<users, nextUserId, nextTokenId, now>>
  /\ UNCHANGED client

(***************************************************************************)
(* POST /deactivate  -> AuthService.deactivateAccount                      *)
(***************************************************************************)
Deactivate(w, token) ==
  /\ Free(w)
  /\ Authenticate(w, [Idle EXCEPT !.op = "deactivate", !.token = token],
                  "deact_inv")
  /\ UNCHANGED <<users, nextUserId, nextTokenId, now>>
  /\ UNCHANGED client

\* await tokenService.invalidateAllUserTokens(userId)
DeactivateInvalidate(w) ==
  /\ At(w, "deactivate", "deact_inv")
  /\ tokens' = InvalidateAllUserTokens(req[w].userId)
  /\ Goto(w, [req[w] EXCEPT !.pc = "deact_user"])
  /\ UNCHANGED <<users, nextUserId, nextTokenId, now>>
  /\ UNCHANGED client

\* prisma.user.update({ where: { id }, data })
UpdateUser(userId, field, value) ==
  {IF u.id = userId THEN [u EXCEPT ![field] = value] ELSE u : u \in users}

\* await prisma.user.update({ where: { id: userId }, isActive: false })
DeactivateUser(w) ==
  /\ At(w, "deactivate", "deact_user")
  /\ LET r == req[w]
     IN IF \E u \in users : u.id = r.userId
          THEN users' = UpdateUser(r.userId, "isActive", FALSE)
               /\ Finish(w, r, "OK")
          ELSE UNCHANGED users /\ Finish(w, r, "STORAGE_ERROR")
  /\ UNCHANGED <<tokens, nextUserId, nextTokenId, now>>
  /\ UNCHANGED client

(***************************************************************************)
(* POST /reactivate  -> AuthController.reactivateAccount                   *)
(***************************************************************************)
\* the route's validators, the controller's check, the findFirst of the
\* deactivated user and bcrypt.compare on the row read
Reactivate(w, username, password, deviceHash) ==
  /\ Free(w)
  /\ LET r == [Idle EXCEPT !.op = "reactivate", !.deviceHash = deviceHash]
         matches == FindUserByName(username, FALSE)
     IN IF ~ValidateDeviceHash(deviceHash)
          THEN Finish(w, r, "VALIDATION_FAILED")
          ELSE IF Falsy(deviceHash)
            THEN Finish(w, r, "DEVICE_HASH_REQUIRED")
            ELSE IF matches = {}
              THEN Finish(w, r, "NOT_FOUND")
              ELSE \E u \in matches :
                     IF ~BcryptCompare(password, u.password)
                       THEN Finish(w, [r EXCEPT !.userId = u.id],
                                   "INVALID_CREDENTIALS")
                       ELSE Goto(w, [r EXCEPT !.pc = "react_user",
                                              !.userId = u.id])
  /\ UNCHANGED <<users, tokens, nextUserId, nextTokenId, now>>
  /\ UNCHANGED client

\* AuthService.reactivateAccount: prisma.user.update({ isActive: true })
ReactivateUser(w) ==
  /\ At(w, "reactivate", "react_user")
  /\ LET r == req[w]
     IN IF \E u \in users : u.id = r.userId
          THEN users' = UpdateUser(r.userId, "isActive", TRUE)
               /\ Finish(w, r, "OK")
          ELSE UNCHANGED users /\ Finish(w, r, "STORAGE_ERROR")
  /\ UNCHANGED <<tokens, nextUserId, nextTokenId, now>>
  /\ UNCHANGED client

(***************************************************************************)
(* PUT /profile  -> UserController.updateProfile                           *)
(***************************************************************************)
\* email carries the new address (the route's isEmail and the controller's
\* pattern pass for the addresses of the model)
UpdateProfile(w, token, email) ==
  /\ Free(w)
  /\ Authenticate(w, [Idle EXCEPT !.op = "updateProfile", !.token = token,
                                  !.email = email], "profile_update")
  /\ UNCHANGED <<users, nextUserId, nextTokenId, now>>
  /\ UNCHANGED client

\* await prisma.user.update({ where: { id: userId }, data: { email } })
UpdateProfileWrite(w) ==
  /\ At(w, "updateProfile", "profile_update")
  /\ LET r == req[w]
     IN IF ~\E u \in users : u.id = r.userId
          THEN UNCHANGED users /\ Finish(w, r, "STORAGE_ERROR")
          ELSE IF EmailTaken(r.email, r.userId)
            THEN UNCHANGED users /\ Finish(w, r, "EMAIL_EXISTS")
            ELSE /\ users' = UpdateUser(r.userId, "email", r.email)
                 /\ Finish(w, r, "OK")
  /\ UNCHANGED <<tokens, nextUserId, nextTokenId, now>>
  /\ UNCHANGED client

(***************************************************************************)
(* PUT /password  -> UserController.changePassword                         *)
(***************************************************************************)
\* password carries the new password; the current one is compared in the
\* step that reads the user row.
ChangePassword(w, token, currentPassword, newPassword) ==
  /\ Free(w)
  /\ Authenticate(w, [Idle EXCEPT !.op = "changePassword", !.token = token,
                                  !.username = currentPassword,
                                  !.password = newPassword], "cp_read")
  /\ UNCHANGED <<users, nextUserId, nextTokenId, now>>
  /\ UNCHANGED client

\* const user = await prisma.user.findUnique({ id }) and bcrypt.compare
ChangePasswordRead(w) ==
  /\ At(w, "changePassword", "cp_read")
  /\ LET r == req[w]
     IN IF \E u \in users : u.id = r.userId
          THEN \E u \in users :
                 /\ u.id = r.userId
                 /\ IF BcryptCompare(r.username, u.password)
                      THEN Goto(w, [r EXCEPT !.pc = "cp_update",
                                             !.username = ""])
                      ELSE Finish(w, r, "WRONG_PASSWORD")
          ELSE Finish(w, r, "SERVER_ERROR")
  /\ UNCHANGED <<users, tokens, nextUserId, nextTokenId, now>>
  /\ UNCHANGED client

\* await prisma.user.update({ where: { id }, password: hashedNewPassword })
ChangePasswordUpdate(w) ==
  /\ At(w, "changePassword", "cp_update")
  /\ LET r == req[w]
     IN IF \E u \in users : u.id = r.userId
          THEN /\ users' = UpdateUser(r.userId, "password",
                                     BcryptHash(r.password))
               /\ Goto(w, [r EXCEPT !.pc = "cp_inv"])
          ELSE UNCHANGED users /\ Finish(w, r, "STORAGE_ERROR")
  /\ UNCHANGED <<tokens, nextUserId, nextTokenId, now>>
  /\ UNCHANGED client

\* await prisma.token.updateMany({ where: { userId }, isValid: false })
ChangePasswordInvalidate(w) ==
  /\ At(w, "changePassword", "cp_inv")
  /\ tokens' = InvalidateAllUserTokens(req[w].userId)
  /\ Finish(w, req[w], "OK")
  /\ UNCHANGED <<users, nextUserId, nextTokenId, now>>
  /\ UNCHANGED client

(***************************************************************************)
(* GET /sessions  -> AuthController.getActiveSessions                      *)
(***************************************************************************)
\* String.prototype.substring(start, end), positions counted from 0
Substring(str, start, end) ==
  LET Clamp(n) == IF n < 0 THEN 0 ELSE IF n > Len(str) THEN Len(str) ELSE n
      a == Clamp(start)
      b == Clamp(end)
  IN IF a <= b THEN SubSeq(str, a + 1, b) ELSE SubSeq(str, b + 1, a)

\* the session entry carrying the stored deviceHash as it is
DiscloseDeviceHash(deviceHash) == deviceHash

\* deviceHash.substring(0, 8) + '...' + deviceHash.substring(length - 8)
RedactDeviceHash(deviceHash) ==
  Substring(deviceHash, 0, 8) \o <<".", ".", ".">> \o
  Substring(deviceHash, Len(deviceHash) - 8, Len(deviceHash))

\* AuthService.getActiveSessions: prisma.token.findMany and the map over
\* its rows (the entries, whatever their order)
ActiveSessions(userId) ==
  {[id |-> t.id, deviceId |-> RedactDeviceHash(t.deviceHash),
    createdAt |-> t.createdAt, expiresAt |-> t.expiresAt,
    lastUsed |-> t.lastUsed] :
     t \in {x \in tokens : x.userId = userId /\ Live(x, now)}}

GetActiveSessions(w, token) ==
  /\ Free(w)
  /\ Authenticate(w, [Idle EXCEPT !.op = "sessions", !.token = token],
                  "sess_find")
  /\ UNCHANGED <<users, nextUserId, nextTokenId, now>>
  /\ UNCHANGED client

\* const sessions = await authService.getActiveSessions(userId)
SessionsFind(w) ==
  /\ At(w, "sessions", "sess_find")
  /\ req' = [req EXCEPT ![w] = Idle]
  /\ resp' = [Response(req[w], "OK") EXCEPT
                !.sessions = ActiveSessions(req[w].userId)]
  /\ UNCHANGED <<users, tokens, nextUserId, nextTokenId, now>>
  /\ UNCHANGED client

(***************************************************************************)
(* DELETE /account  -> UserController.deleteAccount                        *)
(***************************************************************************)
\* router.use(authenticateToken), body('password').notEmpty()
DeleteAccount(w, token, password) ==
  /\ Free(w)
  /\ Authenticate(w, [Idle EXCEPT !.op = "deleteAccount", !.token = token,
                                  !.password = password], "del_read")
  /\ UNCHANGED <<users, nextUserId, nextTokenId, now>>
  /\ UNCHANGED client

\* const user = await prisma.user.findUnique({ where: { id: userId } }) and
\* bcrypt.compare(password, user.password); user.password of a row that is
\* gone throws, which the catch hands to the error handler.
DeleteAccountRead(w) ==
  /\ At(w, "deleteAccount", "del_read")
  /\ LET r == req[w]
     IN IF UserExists(r.userId)
          THEN \E u \in users :
                 /\ u.id = r.userId
                 /\ IF BcryptCompare(r.password, u.password)
                      THEN Goto(w, [r EXCEPT !.pc = "del_delete"])
                      ELSE Finish(w, r, "INVALID_PASSWORD")
          ELSE Finish(w, r, "SERVER_ERROR")
  /\ UNCHANGED <<users, tokens, nextUserId, nextTokenId, now>>
  /\ UNCHANGED client

\* "cascade will handle tokens": the token rows that stay when the user row
\* userId is deleted.
CascadeDelete(userId) == {t \in tokens : t.userId # userId}

\* An account that is switched off instead of deleted keeps its rows.
DeleteAccountSoftly(w) ==
  /\ At(w, "deleteAccount", "del_delete")
  /\ users' = UpdateUser(req[w].userId, "isActive", FALSE)
  /\ Finish(w, req[w], "OK")
  /\ UNCHANGED <<tokens, nextUserId, nextTokenId, now>>
  /\ UNCHANGED client

\* await prisma.user.delete({ where: { id: userId } })
DeleteAccountDelete(w) ==
  /\ At(w, "deleteAccount", "del_delete")
  /\ LET r == req[w]
     IN IF UserExists(r.userId)
          THEN /\ users' = {u \in users : u.id # r.userId}
               /\ tokens' = CascadeDelete(r.userId)
               /\ Finish(w, r, "OK")
          ELSE /\ Finish(w, r, "SERVER_ERROR")
               /\ UNCHANGED <<users, tokens>>
  /\ UNCHANGED <<nextUserId, nextTokenId, now>>
  /\ UNCHANGED client

(***************************************************************************)
(* utils/secureDevice: SecureDeviceManager                                 *)
(***************************************************************************)
Digits == <<"0", "1", "2", "3", "4", "5", "6", "7", "8", "9">>

\* new Date().toISOString() and new Date(bindTime).getTime(), which give the
\* instant back to the millisecond
ToISOString(t) == <<Digits[t + 1]>>
DateParse(iso) == (CHOOSE n \in 1..10 : Digits[n] = iso[1]) - 1

\* the characters of the strings the renderer passes as additionalData
Chars(name) ==
  IF name = "alice" THEN <<"a", "l", "i", "c", "e">>
  ELSE IF name = "bob" THEN <<"b", "o", "b">>
  ELSE IF name = "carol" THEN <<"c", "a", "r", "o", "l">>
  ELSE <<>>

\* crypto.randomUUID(): a value no earlier call returned
RandomUUID(n) == <<"d", "-", Digits[n + 1]>>

StartsWith(str, prefix) ==
  /\ Len(str) >= Len(prefix)
  /\ SubSeq(str, 1, Len(prefix)) = prefix

\* The order of the UTF-16 code units of the characters of a MAC address
CodeUnits ==
  <<"0", "1", "2", "3", "4", "5", "6", "7", "8", "9", ":",
    "a", "b", "c", "d", "e", "f">>
CodeUnit(c) == CHOOSE n \in 1..Len(CodeUnits) : CodeUnits[n] = c

\* x < y for strings, as Array.prototype.sort() compares them
RECURSIVE StringLess(_, _)
StringLess(x, y) ==
  IF y = <<>> THEN FALSE
  ELSE IF x = <<>> THEN TRUE
  ELSE IF Head(x) # Head(y) THEN CodeUnit(Head(x)) < CodeUnit(Head(y))
  ELSE StringLess(Tail(x), Tail(y))

\* A filter that knows the prefixes of Hyper-V and VMware only.
RECURSIVE FilterWithoutVirtualBox(_)
FilterWithoutVirtualBox(ifaces) ==
  IF ifaces = <<>> THEN <<>>
  ELSE LET iface == Head(ifaces)
           keep == /\ ~iface.internal
                   /\ iface.mac # <<>>
                   /\ iface.mac # ZeroMac
                   /\ ~StartsWith(iface.mac, HyperVPrefix)
                   /\ ~StartsWith(iface.mac, VMwarePrefix)
       IN (IF keep THEN <<iface.mac>> ELSE <<>>) \o
          FilterWithoutVirtualBox(Tail(ifaces))

\* .filter(iface => !iface.internal && iface.mac && mac is not all zero and
\* starts with none of the prefixes of Hyper-V, VMware and VirtualBox)
RECURSIVE FilterIfaces(_)
FilterIfaces(ifaces) ==
  IF ifaces = <<>> THEN <<>>
  ELSE LET iface == Head(ifaces)
           keep == /\ ~iface.internal
                   /\ iface.mac # <<>>
                   /\ iface.mac # ZeroMac
                   /\ ~StartsWith(iface.mac, HyperVPrefix)
                   /\ ~StartsWith(iface.mac, VMwarePrefix)
                   /\ ~StartsWith(iface.mac, VirtualBoxPrefix)
       IN (IF keep THEN <<iface.mac>> ELSE <<>>) \o
          FilterIfaces(Tail(ifaces))

\* macs with mac put before the first item that is greater
RECURSIVE Insert(_, _)
Insert(mac, macs) ==
  IF macs = <<>> THEN <<mac>>
  ELSE IF StringLess(mac, Head(macs)) THEN <<mac>> \o macs
  ELSE <<Head(macs)>> \o Insert(mac, Tail(macs))

\* .sort()
RECURSIVE Sort(_)
Sort(macs) ==
  IF macs = <<>> THEN <<>> ELSE Insert(Head(macs), Sort(Tail(macs)))

\* .join(',')
RECURSIVE Join(_)
Join(macs) ==
  IF macs = <<>> THEN <<>>
  ELSE IF Len(macs) = 1 THEN Head(macs)
  ELSE Head(macs) \o <<",">> \o Join(Tail(macs))

\* const macAddresses = ... .filter(...).map(iface => iface.mac).sort().join(',')
MacAddresses(ifaces) == Join(Sort(FilterIfaces(ifaces)))

\* JSON.stringify(hardwareData): the hostname stands for the scalar
\* attributes (machineId, cpuInfo, platform, arch, hostname, totalMemory)
HardwareData(hw) ==
  <<"{">> \o hw.hostname \o <<",">> \o MacAddresses(hw.interfaces) \o <<"}">>

\* getHardwareFingerprint: the digest of JSON.stringify(hardwareData);
\* throws when an attribute cannot be read.
GetHardwareFingerprint(hw) ==
  IF hw.readable
    THEN [ok |-> TRUE, value |-> Sha256(HardwareData(hw))]
    ELSE [ok |-> FALSE, value |-> <<>>]

\* const maxAge = 365 * 24 * 60 * 60 * 1000, in half years
BindingMaxAge == 2

\* A validation that looks at the presence and the age of the binding only.
ValidateWithoutFingerprint ==
  IF binding = NoBinding
    THEN [isValid |-> FALSE, reason |-> "No device binding found"]
  ELSE IF clock - DateParse(binding.bindTime) > BindingMaxAge
    THEN [isValid |-> FALSE, reason |-> "Device binding expired"]
  ELSE [isValid |-> TRUE, reason |-> ""]

\* validateDeviceBinding() of the binding stored at this moment
ValidateDeviceBinding ==
  IF binding = NoBinding
    THEN [isValid |-> FALSE, reason |-> "No device binding found"]
  ELSE IF ~GetHardwareFingerprint(hardware).ok
    THEN [isValid |-> FALSE, reason |-> "Validation error"]
  ELSE IF binding.hardwareFingerprint # GetHardwareFingerprint(hardware).value
    THEN [isValid |-> FALSE, reason |-> "Hardware fingerprint mismatch"]
  ELSE IF clock - DateParse(binding.bindTime) > BindingMaxAge
    THEN [isValid |-> FALSE, reason |-> "Device binding expired"]
  ELSE [isValid |-> TRUE, reason |-> ""]

\* JSON.stringify(hashData) of { deviceId, hardwareFingerprint, timestamp,
\* additionalData }
HashData(b, timestamp, additionalData) ==
  <<"{">> \o b.deviceId \o <<",">> \o b.hardwareFingerprint \o <<",">> \o
  <<Digits[timestamp + 1]>> \o <<",">> \o additionalData \o <<"}">>

\* A manager that hashes whatever binding is stored, without validating it.
HashWithoutValidation(additionalData) ==
  IF binding = NoBinding
    THEN [ok |-> FALSE, hash |-> NoHash, reason |-> "No device binding found"]
    ELSE [ok |-> TRUE,
          hash |-> Str(Sha256(HashData(binding, clock, additionalData))),
          reason |-> ""]

\* SecureDeviceManager.generateDeviceHash(additionalData): the digest, or
\* the Error('Device validation failed: ' + reason) it throws
SecureDeviceGenerateDeviceHash(additionalData) ==
  IF ~ValidateDeviceBinding.isValid
    THEN [ok |-> FALSE, hash |-> NoHash,
          reason |-> ValidateDeviceBinding.reason]
    ELSE [ok |-> TRUE,
          hash |-> Str(Sha256(HashData(binding, clock, additionalData))),
          reason |-> ""]

\* A binding whose deviceId is taken from the machine instead of drawn.
CreateDeviceBindingFromHostname ==
  [deviceId |-> hardware.hostname,
   hardwareFingerprint |-> GetHardwareFingerprint(hardware).value,
   bindTime |-> ToISOString(clock)]

\* createDeviceBinding() at this moment, when the fingerprint can be taken
CreateDeviceBinding ==
  [deviceId |-> RandomUUID(nextDeviceId),
   hardwareFingerprint |-> GetHardwareFingerprint(hardware).value,
   bindTime |-> ToISOString(clock)]

\* encryptData(data): crypto.createCipherGCM is not a function of the crypto
\* module, so the call throws a TypeError before anything is encrypted.
EncryptData(data) == [ok |-> FALSE, value |-> <<>>]

\* createDeviceBinding: fs.writeFileSync(this.deviceBindingFile,
\* this.encryptData(...)) inside its own try, whose failure is only logged
WriteBackupFile(b) ==
  IF EncryptData(b.deviceId).ok THEN "present" ELSE deviceBindingFile

(***************************************************************************)
(* main.js: the Electron main process and its ipcMain handlers             *)
(***************************************************************************)
\* A start that creates the window whether or not the initialisation threw.
AppStartWithoutCheck ==
  /\ app = "stopped"
  /\ app' = "running"
  /\ IF ~ValidateDeviceBinding.isValid /\ hardware.readable
       THEN /\ nextDeviceId <= MaxBindings
            /\ binding' = CreateDeviceBinding
            /\ nextDeviceId' = nextDeviceId + 1
            /\ deviceBindingFile' = WriteBackupFile(CreateDeviceBinding)
       ELSE UNCHANGED <<binding, nextDeviceId, deviceBindingFile>>
  /\ ipc' = [NoAnswer EXCEPT
               !.channel = "ready",
               !.ok = hardware.readable,
               !.reason = IF hardware.readable THEN ""
                          ELSE "Device security initialization failed"]
  /\ sent' = NoRequest
  /\ UNCHANGED <<hardware, clock>>
  /\ UNCHANGED server

\* app.whenReady(): initializeSecureDevice() -> initializeIfNeeded(), which
\* keeps a binding that validates and creates one otherwise, then
\* createWindow(); app.quit() without a window when the initialization
\* throws. ipc records how the handler ended.
AppStart ==
  /\ app = "stopped"
  /\ IF ValidateDeviceBinding.isValid
       THEN /\ app' = "running"
            /\ UNCHANGED <<binding, nextDeviceId, deviceBindingFile>>
       ELSE IF hardware.readable
         THEN /\ nextDeviceId <= MaxBindings
              /\ binding' = CreateDeviceBinding
              /\ nextDeviceId' = nextDeviceId + 1
              /\ deviceBindingFile' = WriteBackupFile(CreateDeviceBinding)
              /\ app' = "running"
         ELSE UNCHANGED <<app, binding, nextDeviceId, deviceBindingFile>>
  /\ ipc' = [NoAnswer EXCEPT
               !.channel = "ready",
               !.ok = hardware.readable,
               !.reason = IF hardware.readable THEN ""
                          ELSE "Device security initialization failed"]
  /\ sent' = NoRequest
  /\ UNCHANGED <<hardware, clock>>
  /\ UNCHANGED server

\* window-all-closed: app.quit()
AppQuit ==
  /\ app = "running"
  /\ app' = "stopped"
  /\ ipc' = NoAnswer
  /\ sent' = NoRequest
  /\ UNCHANGED <<binding, hardware, clock, nextDeviceId, deviceBindingFile>>
  /\ UNCHANGED server

\* ipcMain.handle('generate-device-hash'): the hash, or the error rethrown
IpcGenerateDeviceHash(additionalData) ==
  /\ app = "running"
  /\ LET result == SecureDeviceGenerateDeviceHash(additionalData)
     IN ipc' = [channel |-> "generate-device-hash", ok |-> result.ok,
                hash |-> result.hash, reason |-> result.reason]
  /\ sent' = NoRequest
  /\ UNCHANGED <<app, binding, hardware, clock, nextDeviceId,
               deviceBindingFile>>
  /\ UNCHANGED server

\* ipcMain.handle('validate-device-integrity'): validateDeviceBinding()
IpcValidateDeviceIntegrity ==
  /\ app = "running"
  /\ ipc' = [channel |-> "validate-device-integrity",
             ok |-> ValidateDeviceBinding.isValid, hash |-> NoHash,
             reason |-> ValidateDeviceBinding.reason]
  /\ sent' = NoRequest
  /\ UNCHANGED <<app, binding, hardware, clock, nextDeviceId,
               deviceBindingFile>>
  /\ UNCHANGED server

\* ipcMain.handle('reset-device-binding'), first half: resetDeviceBinding()
\* deletes store key deviceBinding and unlinks the backup file if it exists.
IpcResetDeviceBinding ==
  /\ app = "running"
  /\ binding' = NoBinding
  /\ deviceBindingFile' = "absent"
  /\ app' = "resetting"
  /\ ipc' = NoAnswer
  /\ sent' = NoRequest
  /\ UNCHANGED <<hardware, clock, nextDeviceId>>
  /\ UNCHANGED server

\* ipcMain.handle('reset-device-binding') when fs.unlinkSync throws on the
\* backup file (it is locked or may not be removed): the store key has been
\* deleted before, resetDeviceBinding() returns false from its catch, the
\* handler skips the initialisation and answers { success: false }.
IpcResetUnlinkFails ==
  /\ app = "running"
  /\ deviceBindingFile = "present"
  /\ binding' = NoBinding
  /\ ipc' = [NoAnswer EXCEPT !.channel = "reset-device-binding"]
  /\ sent' = NoRequest
  /\ UNCHANGED <<app, hardware, clock, nextDeviceId, deviceBindingFile>>
  /\ UNCHANGED server

\* second half: initializeSecureDevice() -> initializeIfNeeded(), whose
\* error is answered { success: false, error }
IpcResetInitialize ==
  /\ app = "resetting"
  /\ IF ValidateDeviceBinding.isValid
       THEN /\ ipc' = [NoAnswer EXCEPT !.channel = "reset-device-binding",
                                        !.ok = TRUE]
            /\ UNCHANGED <<binding, nextDeviceId, deviceBindingFile>>
       ELSE IF hardware.readable
         THEN /\ nextDeviceId <= MaxBindings
              /\ binding' = CreateDeviceBinding
              /\ nextDeviceId' = nextDeviceId + 1
              /\ deviceBindingFile' = WriteBackupFile(CreateDeviceBinding)
              /\ ipc' = [NoAnswer EXCEPT !.channel = "reset-device-binding",
                                          !.ok = TRUE]
         ELSE /\ ipc' = [NoAnswer EXCEPT
                           !.channel = "reset-device-binding",
                           !.reason = "Device security initialization failed"]
              /\ UNCHANGED <<binding, nextDeviceId, deviceBindingFile>>
  /\ app' = "running"
  /\ sent' = NoRequest
  /\ UNCHANGED <<hardware, clock>>
  /\ UNCHANGED server

\* A file .device_binding is put in place from outside the application, for
\* instance copied from another installation.
PlaceBackupFile ==
  /\ deviceBindingFile = "absent"
  /\ deviceBindingFile' = "present"
  /\ ipc' = NoAnswer
  /\ sent' = NoRequest
  /\ UNCHANGED <<app, binding, hardware, clock, nextDeviceId>>
  /\ UNCHANGED server

(***************************************************************************)
(* The renderer: frontend/js login and registration pages                  *)
(***************************************************************************)
\* handleRegistration and handleLogin: validateSecureDevice(), then
\* getSecureDeviceHash(username), then the fetch whose JSON body is
\* { username, email, password, deviceHash }; nothing is sent when the
\* device check or the hash fails.
Fetch(op, username, email, password) ==
  LET result == SecureDeviceGenerateDeviceHash(Chars(username))
  IN IF result.ok
       THEN [op |-> op, username |-> username, email |-> email,
             password |-> password, deviceHash |-> result.hash]
       ELSE NoRequest

\* handleRegistration -> registerWithDeviceHash(registrationData)
HandleRegistration(ident, password) ==
  /\ app = "running"
  /\ sent' = Fetch("register", ident.username, ident.email, password)
  /\ ipc' = NoAnswer
  /\ UNCHANGED <<app, binding, hardware, clock, nextDeviceId,
               deviceBindingFile>>
  /\ UNCHANGED server

\* handleLogin -> loginWithDeviceHash(username, password, deviceHash)
HandleLogin(username, password) ==
  /\ app = "running"
  /\ sent' = Fetch("login", username, "", password)
  /\ ipc' = NoAnswer
  /\ UNCHANGED <<app, binding, hardware, clock, nextDeviceId,
               deviceBindingFile>>
  /\ UNCHANGED server

\* forceLogoutBtn: after its login, logoutFromOtherDevices(response.token,
\* deviceHash) sends { deviceHash } with the hash that the login carried.
LogoutFromOtherDevices ==
  /\ app = "running"
  /\ sent.op = "login"
  /\ sent' = [NoRequest EXCEPT !.op = "logout-other-devices",
                               !.deviceHash = sent.deviceHash]
  /\ ipc' = NoAnswer
  /\ UNCHANGED <<app, binding, hardware, clock, nextDeviceId,
               deviceBindingFile>>
  /\ UNCHANGED server

\* The machine is renamed, or its attributes stop or start being readable.
ChangeHardware(hw) ==
  /\ hw # hardware
  /\ hardware' = hw
  /\ ipc' = NoAnswer
  /\ sent' = NoRequest
  /\ UNCHANGED <<app, binding, clock, nextDeviceId, deviceBindingFile>>
  /\ UNCHANGED server

\* Half a year passes on the client.
ClockTick ==
  /\ clock < MaxClock
  /\ clock' = clock + 1
  /\ ipc' = NoAnswer
  /\ sent' = NoRequest
  /\ UNCHANGED <<app, binding, hardware, nextDeviceId, deviceBindingFile>>
  /\ UNCHANGED server

(***************************************************************************)
(* Clock                                                                   *)
(***************************************************************************)
\* d half days pass
Tick(d) ==
  /\ now + d <= MaxTime
  /\ now' = now + d
  /\ resp' = NoResp
  /\ UNCHANGED <<users, tokens, nextUserId, nextTokenId, req>>
  /\ UNCHANGED client

(***************************************************************************)
(* Token clean-up                                                          *)
(***************************************************************************)
\* 7 * 24 * 60 * 60 * 1000 ms, in half days
RetentionWindow == 14

\* A where clause that compares createdAt where the code compares expiresAt.
CleanupRowsByCreatedAt == {t \in tokens : t.createdAt < now}

\* The where clause of DeviceService.cleanupExpiredTokens: expiresAt < now,
\* OR isValid = false AND createdAt < now - 7 days
DeviceCleanupRows ==
  {t \in tokens : \/ t.expiresAt < now
                  \/ ~t.isValid /\ t.createdAt < now - RetentionWindow}

\* The where clause of TokenService.cleanupExpiredTokens: expiresAt < now
TokenCleanupRows == {t \in tokens : t.expiresAt < now}

\* DeviceService.cleanupExpiredTokens: one prisma.token.deleteMany
DeviceServiceCleanupExpiredTokens ==
  /\ tokens' = tokens \ DeviceCleanupRows
  /\ resp' = [NoResp EXCEPT !.op = "cleanup"]
  /\ UNCHANGED <<users, nextUserId, nextTokenId, now, req>>
  /\ UNCHANGED client

\* TokenService.cleanupExpiredTokens: one prisma.token.deleteMany
TokenServiceCleanupExpiredTokens ==
  /\ tokens' = tokens \ TokenCleanupRows
  /\ resp' = [NoResp EXCEPT !.op = "cleanup"]
  /\ UNCHANGED <<users, nextUserId, nextTokenId, now, req>>
  /\ UNCHANGED client

\* d half days pass, up to the last half day that clean-up is followed over.
PassTime(d) ==
  /\ now + d <= MaxCleanupTime
  /\ now' = now + d
  /\ resp' = NoResp
  /\ UNCHANGED <<users, tokens, nextUserId, nextTokenId, req>>
  /\ UNCHANGED client

(***************************************************************************)
(* Specifications                                                          *)
(***************************************************************************)
\* The token strings a client can present: those the server has issued,
\* and one it has not signed.
Issued == {t.token : t \in tokens}
Presentable == Issued \cup {ForgedToken}

ValidHashes == {HashA, HashB}
Alice == [username |-> "alice", email |-> "alice@x"]

RegisterSteps(cap) ==
  \/ \E w \in Workers : RegisterFindExisting(w)
  \/ \E w \in Workers : RegisterCreateUser(w)
  \/ \E w \in Workers : RegisterCreateToken(w, cap)

\* Every operation, on one account.
Next ==
  \/ Tick(TokenTTL)
  \/ \E w \in Workers, pw \in RegisterPasswords : Register(w, Alice, pw, HashA)
  \/ RegisterSteps(SessionTokens)
  \/ \E w \in Workers, pw \in Passwords, d \in ValidHashes :
        Login(w, "alice", pw, d)
  \/ \E w \in Workers : LoginCreateToken(w, SessionTokens)
  \/ \E w \in Workers, tok \in Presentable : Verify(w, tok)
  \/ \E w \in Workers : VerifyTouch(w)
  \/ \E w \in Workers : VerifyUser(w)
  \/ \E w \in Workers, tok \in Issued : Logout(w, tok)
  \/ \E w \in Workers : LogoutInvalidate(w)
  \/ \E w \in Workers, tok \in Issued : ForceLogout(w, tok)
  \/ \E w \in Workers : ForceLogoutInvalidate(w)
  \/ \E w \in Workers, tok \in Issued, d \in ValidHashes :
        LogoutOther(w, tok, d)
  \/ \E w \in Workers : LogoutOtherInvalidate(w)
  \/ \E w \in Workers, tok \in Issued : Deactivate(w, tok)
  \/ \E w \in Workers : DeactivateInvalidate(w)
  \/ \E w \in Workers : DeactivateUser(w)
  \/ \E w \in Workers, pw \in RegisterPasswords :
        Reactivate(w, "alice", pw, HashA)
  \/ \E w \in Workers : ReactivateUser(w)
  \/ \E w \in Workers, tok \in Issued, cur \in RegisterPasswords,
        new \in Passwords \ RegisterPasswords : ChangePassword(w, tok, cur, new)
  \/ \E w \in Workers : ChangePasswordRead(w)
  \/ \E w \in Workers : ChangePasswordUpdate(w)
  \/ \E w \in Workers : ChangePasswordInvalidate(w)

Spec == Init /\ [][Next]_vars

\* Registration and login of two accounts from two devices.
NextLogin ==
  \/ \E w \in Workers, ident \in TwoIdentities, pw \in RegisterPasswords,
        d \in ValidHashes : Register(w, ident, pw, d)
  \/ RegisterSteps(MaxTokens)
  \/ \E w \in Workers, n \in {"alice", "bob"}, pw \in RegisterPasswords,
        d \in ValidHashes : Login(w, n, pw, d)
  \/ \E w \in Workers : LoginCreateToken(w, MaxTokens)

SpecLogin == Init /\ [][NextLogin]_vars

\* Two accounts on one device, with deactivation.
NextDevice ==
  \/ \E w \in Workers, ident \in Identities, pw \in RegisterPasswords :
        Register(w, ident, pw, HashA)
  \/ RegisterSteps(MaxTokens)
  \/ \E w \in Workers, n \in {"alice", "bob"}, pw \in RegisterPasswords :
        Login(w, n, pw, HashA)
  \/ \E w \in Workers : LoginCreateToken(w, MaxTokens)
  \/ \E w \in Workers, tok \in Issued : Deactivate(w, tok)
  \/ \E w \in Workers : DeactivateInvalidate(w)
  \/ \E w \in Workers : DeactivateUser(w)

SpecDevice == Init /\ [][NextDevice]_vars

\* The ways to end sessions of one account on two devices.
NextLogout ==
  \/ Tick(TokenTTL)
  \/ \E w \in Workers, pw \in RegisterPasswords : Register(w, Alice, pw, HashA)
  \/ RegisterSteps(SessionTokens)
  \/ \E w \in Workers, pw \in RegisterPasswords, d \in ValidHashes :
        Login(w, "alice", pw, d)
  \/ \E w \in Workers : LoginCreateToken(w, SessionTokens)
  \/ \E w \in Workers, tok \in Issued : Logout(w, tok)
  \/ \E w \in Workers : LogoutInvalidate(w)
  \/ \E w \in Workers, tok \in Issued : ForceLogout(w, tok)
  \/ \E w \in Workers : ForceLogoutInvalidate(w)
  \/ \E w \in Workers, tok \in Issued, d \in ValidHashes :
        LogoutOther(w, tok, d)
  \/ \E w \in Workers : LogoutOtherInvalidate(w)

SpecLogout == Init /\ [][NextLogout]_vars

\* Verification of the tokens of one account on one device, while the token
\* is ended, the account is switched off and on, and half days pass.
NextVerify ==
  \/ Tick(1)
  \/ \E w \in Workers, pw \in RegisterPasswords : Register(w, Alice, pw, HashA)
  \/ RegisterSteps(SessionTokens)
  \/ \E w \in Workers, pw \in RegisterPasswords : Login(w, "alice", pw, HashA)
  \/ \E w \in Workers : LoginCreateToken(w, SessionTokens)
  \/ \E w \in Workers, tok \in Presentable : Verify(w, tok)
  \/ \E w \in Workers : VerifyTouch(w)
  \/ \E w \in Workers : VerifyUser(w)
  \/ \E w \in Workers, tok \in Issued : Logout(w, tok)
  \/ \E w \in Workers : LogoutInvalidate(w)
  \/ \E w \in Workers, tok \in Issued : Deactivate(w, tok)
  \/ \E w \in Workers : DeactivateInvalidate(w)
  \/ \E w \in Workers : DeactivateUser(w)
  \/ \E w \in Workers, pw \in RegisterPasswords :
        Reactivate(w, "alice", pw, HashA)
  \/ \E w \in Workers : ReactivateUser(w)

SpecVerify == Init /\ [][NextVerify]_vars

\* Recovery of one account: forceLogout is the only way a token ends, and
\* logins from two devices follow.
NextRecover ==
  \/ \E w \in Workers, pw \in RegisterPasswords : Register(w, Alice, pw, HashA)
  \/ RegisterSteps(MaxTokens)
  \/ \E w \in Workers, pw \in RegisterPasswords, d \in ValidHashes :
        Login(w, "alice", pw, d)
  \/ \E w \in Workers : LoginCreateToken(w, MaxTokens)
  \/ \E w \in Workers, tok \in Issued : ForceLogout(w, tok)
  \/ \E w \in Workers : ForceLogoutInvalidate(w)
  \/ \E w \in Workers, tok \in Presentable : Verify(w, tok)
  \/ \E w \in Workers : VerifyTouch(w)
  \/ \E w \in Workers : VerifyUser(w)

SpecRecover == Init /\ [][NextRecover]_vars

\* Registration and login of one account with well-formed and malformed
\* device hashes, known and unknown names, right and wrong passwords, while
\* the account is switched off.
AllHashes == {HashA, HashMixed} \cup MalformedHashes

NextInput ==
  \/ \E w \in Workers, pw \in RegisterPasswords, d \in AllHashes :
        Register(w, Alice, pw, d)
  \/ RegisterSteps(SessionTokens)
  \/ \E w \in Workers, n \in LoginNames, pw \in Passwords, d \in AllHashes :
        Login(w, n, pw, d)
  \/ \E w \in Workers : LoginCreateToken(w, SessionTokens)
  \/ \E w \in Workers, tok \in Issued : Deactivate(w, tok)
  \/ \E w \in Workers : DeactivateInvalidate(w)
  \/ \E w \in Workers : DeactivateUser(w)

SpecInput == Init /\ [][NextInput]_vars

\* The session list of an account with tokens on two devices, some of them
\* ended or expired, next to another account.
Bob == [username |-> "bob", email |-> "bob@x"]

NextSessions ==
  \/ Tick(TokenTTL)
  \/ \E w \in Workers, pw \in RegisterPasswords : Register(w, Alice, pw, HashA)
  \/ \E w \in Workers, pw \in RegisterPasswords : Register(w, Bob, pw, HashB)
  \/ RegisterSteps(MaxTokens)
  \/ \E w \in Workers, pw \in RegisterPasswords : Login(w, "alice", pw, HashB)
  \/ \E w \in Workers : LoginCreateToken(w, MaxTokens)
  \/ \E w \in Workers, tok \in Issued : Logout(w, tok)
  \/ \E w \in Workers : LogoutInvalidate(w)
  \/ \E w \in Workers, tok \in Issued : GetActiveSessions(w, tok)
  \/ \E w \in Workers : SessionsFind(w)

SpecSessions == Init /\ [][NextSessions]_vars

\* Registrations that share a username or an email, and changes of email.
UniqueIdentities ==
  { [username |-> "alice", email |-> "alice@x"],
    [username |-> "alice", email |-> "bob@x"],
    [username |-> "bob", email |-> "alice@x"] }

ProfileEmails == {"alice@x", "bob@x"}

NextUnique ==
  \/ \E w \in Workers, ident \in UniqueIdentities, pw \in RegisterPasswords,
        d \in ValidHashes : Register(w, ident, pw, d)
  \/ RegisterSteps(MaxTokens)
  \/ \E w \in Workers, tok \in Issued, email \in ProfileEmails :
        UpdateProfile(w, tok, email)
  \/ \E w \in Workers : UpdateProfileWrite(w)

SpecUnique == Init /\ [][NextUnique]_vars

\* Deleting an account while it registers, logs in and verifies.
NextDelete ==
  \/ \E w \in Workers, pw \in RegisterPasswords :
        Register(w, Alice, pw, HashA)
  \/ RegisterSteps(MaxTokens)
  \/ \E w \in Workers, pw \in Passwords : Login(w, "alice", pw, HashA)
  \/ \E w \in Workers : LoginCreateToken(w, MaxTokens)
  \/ \E w \in Workers, tok \in Issued : Verify(w, tok)
  \/ \E w \in Workers : VerifyTouch(w)
  \/ \E w \in Workers : VerifyUser(w)
  \/ \E w \in Workers, tok \in Issued, pw \in Passwords :
        DeleteAccount(w, tok, pw)
  \/ \E w \in Workers : DeleteAccountRead(w)
  \/ \E w \in Workers : DeleteAccountDelete(w)

SpecDelete == Init /\ [][NextDelete]_vars

\* Registrations only: accounts and tokens come from POST /register alone.
NextRace ==
  \/ \E w \in Workers, ident \in TwoIdentities, pw \in RegisterPasswords,
        d \in ValidHashes : Register(w, ident, pw, d)
  \/ RegisterSteps(MaxTokens)

SpecRace == Init /\ [][NextRace]_vars

\* Registrations and logins against a store whose token writes can fail.
NextStorage ==
  \/ \E w \in Workers, ident \in TwoIdentities, pw \in RegisterPasswords :
        Register(w, ident, pw, HashA)
  \/ RegisterSteps(MaxTokens)
  \/ \E w \in Workers, n \in {"alice", "bob"}, pw \in Passwords :
        Login(w, n, pw, HashA)
  \/ \E w \in Workers : LoginCreateToken(w, MaxTokens)
  \/ \E w \in Workers : TokenCreateFails(w)

SpecStorage == Init /\ [][NextStorage]_vars

\* Tokens of one account that are issued, ended by logout, expire and are
\* cleaned up while time passes in steps of half a day and of a week.
NextCleanup ==
  \/ PassTime(1)
  \/ PassTime(RetentionWindow)
  \/ \E w \in Workers, pw \in RegisterPasswords : Register(w, Alice, pw, HashA)
  \/ RegisterSteps(SessionTokens)
  \/ \E w \in Workers, pw \in RegisterPasswords : Login(w, "alice", pw, HashA)
  \/ \E w \in Workers : LoginCreateToken(w, SessionTokens)
  \/ \E w \in Workers, tok \in Issued : Logout(w, tok)
  \/ \E w \in Workers : LogoutInvalidate(w)
  \/ DeviceServiceCleanupExpiredTokens
  \/ TokenServiceCleanupExpiredTokens

SpecCleanup == Init /\ [][NextCleanup]_vars

\* Two accounts, each on its own device, or one account with two sessions:
\* every operation that ends sessions is run with the tokens of either.
NextFrame ==
  \/ \E w \in Workers, pw \in RegisterPasswords :
        \/ Register(w, Alice, pw, HashA)
        \/ Register(w, [username |-> "bob", email |-> "bob@x"], pw, HashB)
  \/ RegisterSteps(SessionTokens)
  \/ \E w \in Workers, pw \in RegisterPasswords : Login(w, "alice", pw, HashA)
  \/ \E w \in Workers : LoginCreateToken(w, SessionTokens)
  \/ \E w \in Workers, tok \in Issued : Logout(w, tok)
  \/ \E w \in Workers : LogoutInvalidate(w)
  \/ \E w \in Workers, tok \in Issued : ForceLogout(w, tok)
  \/ \E w \in Workers : ForceLogoutInvalidate(w)
  \/ \E w \in Workers, tok \in Issued, d \in ValidHashes :
        LogoutOther(w, tok, d)
  \/ \E w \in Workers : LogoutOtherInvalidate(w)
  \/ \E w \in Workers, tok \in Issued : Deactivate(w, tok)
  \/ \E w \in Workers : DeactivateInvalidate(w)
  \/ \E w \in Workers : DeactivateUser(w)
  \/ \E w \in Workers, tok \in Issued, cur \in RegisterPasswords,
        new \in Passwords \ RegisterPasswords : ChangePassword(w, tok, cur, new)
  \/ \E w \in Workers : ChangePasswordRead(w)
  \/ \E w \in Workers : ChangePasswordUpdate(w)
  \/ \E w \in Workers : ChangePasswordInvalidate(w)

SpecFrame == Init /\ [][NextFrame]_vars

\* The installation: starts and stops of the application, resets, changes
\* of the hardware and the passing of time, with hashes asked for throughout.
NextBinding ==
  \/ AppStart
  \/ AppQuit
  \/ \E name \in {"", "alice"} : IpcGenerateDeviceHash(Chars(name))
  \/ IpcValidateDeviceIntegrity
  \/ IpcResetDeviceBinding
  \/ IpcResetInitialize
  \/ PlaceBackupFile
  \/ \E hw \in Hardware : ChangeHardware(hw)
  \/ ClockTick

SpecBinding == Init /\ [][NextBinding]_vars

\* The installation, with a backup file that cannot always be removed.
NextReset ==
  \/ NextBinding
  \/ IpcResetUnlinkFails

SpecReset == Init /\ [][NextReset]_vars

\* The application registers and logs in over the wire: the server handles
\* the requests the renderer sent, and logins that another program sends
\* with a device hash the application would not produce.
NextWire ==
  \/ AppStart
  \/ ClockTick
  \/ \E pw \in RegisterPasswords : HandleRegistration(Alice, pw)
  \/ \E pw \in Passwords : HandleLogin("alice", pw)
  \/ LogoutFromOtherDevices
  \/ \E w \in Workers :
        /\ sent.op = "register"
        /\ Register(w, [username |-> sent.username, email |-> sent.email],
                    sent.password, sent.deviceHash)
  \/ RegisterSteps(SessionTokens)
  \/ \E w \in Workers :
        /\ sent.op = "login"
        /\ Login(w, sent.username, sent.password, sent.deviceHash)
  \/ \E w \in Workers, d \in MalformedHashes \cup {NoHash} :
        Login(w, "alice", "Secret1", d)
  \/ \E w \in Workers : LoginCreateToken(w, SessionTokens)

SpecWire == Init /\ [][NextWire]_vars

\* The client's requests on the wire while the server's time passes: a
\* request once sent stays available to whoever resubmits it.
NextReplay ==
  \/ AppStart
  \/ \E pw \in RegisterPasswords : HandleRegistration(Alice, pw)
  \/ \E pw \in Passwords : HandleLogin("alice", pw)
  \/ \E w \in Workers :
        /\ sent.op = "register"
        /\ Register(w, [username |-> sent.username, email |-> sent.email],
                    sent.password, sent.deviceHash)
  \/ RegisterSteps(SessionTokens)
  \/ \E w \in Workers :
        /\ sent.op = "login"
        /\ Login(w, sent.username, sent.password, sent.deviceHash)
  \/ \E w \in Workers : LoginCreateToken(w, SessionTokens)
  \/ Tick(1)

SpecReplay == Init /\ [][NextReplay]_vars

\* What os.networkInterfaces() can list on one machine: the adapters in
\* either order, a second address on an adapter, adapters of hypervisors,
\* the loopback interface, an internal interface with an address of its own,
\* an adapter without an address, no adapter.
InterfaceLists ==
  { OneAdapter,
    <<Iface(MacEth, FALSE), Iface(MacWifi, FALSE)>>,
    <<Iface(MacWifi, FALSE), Iface(MacEth, FALSE)>>,
    <<Iface(MacEth, FALSE), Iface(MacEth, FALSE)>>,
    <<Iface(MacEth, FALSE), Iface(MacVirtualBox, FALSE)>>,
    <<Iface(MacHyperV, FALSE), Iface(MacEth, FALSE),
      Iface(MacVMware, FALSE)>>,
    <<Iface(ZeroMac, TRUE), Iface(MacEth, FALSE)>>,
    <<Iface(MacWifi, TRUE), Iface(MacEth, FALSE), Iface(ZeroMac, FALSE)>>,
    <<>> }

Machines ==
  [hostname : {HostA, HostB}, readable : BOOLEAN,
   interfaces : InterfaceLists]

\* The fingerprint is taken, at starts of the application and at
\* validations, on a machine whose attributes and interface list change.
NextExtract ==
  \/ AppStart
  \/ AppQuit
  \/ IpcValidateDeviceIntegrity
  \/ IpcGenerateDeviceHash(<<>>)
  \/ \E hw \in Machines : ChangeHardware(hw)

SpecExtract == Init /\ [][NextExtract]_vars

(***************************************************************************)
(* Claims                                                                  *)
(***************************************************************************)
LiveTokensOf(userId) == {t \in tokens : t.userId = userId /\ Live(t, now)}

\* C1: every active account has live tokens for at most one processed
\* device hash.
C1_Exclusivity ==
  \A u \in users :
    u.isActive => Cardinality({t.deviceHash : t \in LiveTokensOf(u.id)}) <= 1

\* C2: a login during whose handling another login of the same account from
\* another device was granted a token is itself rejected with
\* ACCOUNT_ACTIVE_ON_OTHER_DEVICE: of concurrent logins from distinct devices
\* never two are granted.
C2_OneGrantAmongConcurrentLogins ==
  (resp.op = "login" /\ resp.rival # 0) =>
     resp.result = "ACCOUNT_ACTIVE_ON_OTHER_DEVICE"

\* C3: the step of a login that follows its successful credential check,
\* taken while the active account has a live token of another device,
\* answers ACCOUNT_ACTIVE_ON_OTHER_DEVICE and leaves the tokens as they are.
C3_LoginRejectedWhileOtherDeviceLive ==
  [][\A w \in Workers :
       ( /\ At(w, "login", "login_token")
         /\ req'[w].pc = "idle"
         /\ \E u \in users : u.id = req[w].userId /\ u.isActive
         /\ \E t \in LiveTokensOf(req[w].userId) :
              t.deviceHash # GenerateDeviceHash(req[w].deviceHash) )
       => ( /\ resp'.result = "ACCOUNT_ACTIVE_ON_OTHER_DEVICE"
            /\ tokens' = tokens )]_vars

\* C4: a registration under a username no account has never gets past its
\* device check while the processed hash of its device hash has a live token
\* owned by an active account; it is rejected there, before any account or
\* token is created.
C4_RegisterRejectedOnDeviceInUse ==
  [][\A w \in Workers :
       (req[w].pc = "idle" /\ req'[w].op = "register")
       => ~\E t \in tokens :
             /\ \A u \in users : u.username # req'[w].username
             /\ t.deviceHash = GenerateDeviceHash(req'[w].deviceHash)
             /\ Live(t, now)
             /\ TokenOwnerActive(t)]_vars

\* C5: all live tokens bound to one processed device hash belong to one
\* account.
C5_OneAccountPerDevice ==
  \A t1 \in tokens, t2 \in tokens :
    (Live(t1, now) /\ Live(t2, now) /\ t1.deviceHash = t2.deviceHash)
    => t1.userId = t2.userId

SameRow(t, t2) == t2.id = t.id

\* the pcs a protected request reaches by passing authenticateToken
AfterAuth ==
  {"logout_inv", "force_inv", "other_inv", "deact_inv", "cp_read"}

\* C6: a token that is not live (invalidated or expired) is not live after
\* any step, whatever the step does to its row, and a verification (GET
\* /verify or the middleware of a protected route) accepts a token only
\* while its row is live.
C6_TokenLifecycleMonotonic ==
  [][ /\ \A t \in tokens : ~Live(t, now) =>
           \A t2 \in tokens' : SameRow(t, t2) =>
              (t2.token = t.token /\ ~Live(t2, now'))
      /\ \A w \in Workers :
           ( /\ req[w].pc = "idle"
             /\ req'[w].pc \in AfterAuth \cup {"verify_touch"} )
           => \E t \in tokens : /\ t.id = req'[w].tokenId
                                /\ t.token = req'[w].token
                                /\ Live(t, now)
    ]_vars

\* C6 witness: a verification found its row live, a concurrent request has
\* invalidated the row before its expiry, and the lastUsed refresh of the
\* verification has run on the invalidated row.
C6_Witness ==
  \E w \in Workers :
    /\ At(w, "verify", "verify_user")
    /\ \E t \in tokens : /\ t.id = req[w].tokenId
                         /\ ~t.isValid
                         /\ t.expiresAt > now

\* C7: the invalidating write of forceLogout leaves no token of the account
\* live, whatever device it is bound to.
C7_ForceLogoutClearsAccount ==
  [][\A w \in Workers :
       (At(w, "forceLogout", "force_inv") /\ req'[w].pc = "idle")
       => \A t \in tokens : t.userId = req[w].userId =>
             \A t2 \in tokens' : SameRow(t, t2) => ~Live(t2, now')]_vars

\* C7 witness: forceLogout has answered and two unexpired tokens of the
\* account, bound to different devices, are invalid.
C7_Witness ==
  /\ resp.op = "forceLogout"
  /\ resp.result = "OK"
  /\ \E t1 \in tokens, t2 \in tokens :
       /\ t1.userId = resp.userId /\ t2.userId = resp.userId
       /\ t1.deviceHash # t2.deviceHash
       /\ ~t1.isValid /\ ~t2.isValid
       /\ t1.expiresAt > now /\ t2.expiresAt > now

\* C8: the write of logoutFromOtherDevices(userId, h) sets isValid to false
\* on the account's valid tokens whose deviceHash differs from the processed
\* hash of h and changes no other token and no other field.
C8_LogoutOtherFrame ==
  [][\A w \in Workers :
       (At(w, "logoutOther", "other_inv") /\ req'[w].pc = "idle")
       => /\ Cardinality(tokens') = Cardinality(tokens)
          /\ \A t \in tokens :
               IF /\ t.userId = req[w].userId
                  /\ t.isValid
                  /\ t.deviceHash # GenerateDeviceHash(req[w].deviceHash)
                 THEN [t EXCEPT !.isValid = FALSE] \in tokens'
                 ELSE t \in tokens']_vars

\* C8 witness: logoutFromOtherDevices has answered, a token of the account
\* on the caller's device is still live and one on another device is invalid.
C8_Witness ==
  /\ resp.op = "logoutOther"
  /\ resp.result = "OK"
  /\ \E t1 \in tokens, t2 \in tokens :
       /\ t1.userId = resp.userId /\ t2.userId = resp.userId
       /\ t1.deviceHash # t2.deviceHash
       /\ t1.id = resp.tokenId
       /\ Live(t1, now)
       /\ ~t2.isValid /\ t2.expiresAt > now

\* C9: no inactive account owns a live token.
C9_NoLiveTokenOfInactiveAccount ==
  \A t \in tokens : Live(t, now) => TokenOwnerActive(t)

\* C10: outside a password change that has written the new password and not
\* yet invalidated the tokens, every live token of an account was obtained
\* with the account's current password.
C10_NoLiveTokenOfOldPassword ==
  \A u \in users :
    (\A w \in Workers : ~(req[w].pc = "cp_inv" /\ req[w].userId = u.id))
    => \A t \in LiveTokensOf(u.id) : t.authPw = u.password

\* C11: GET /verify goes on past its record lookup only with a token whose
\* signature check passes and whose row is valid and unexpired at the lookup;
\* its lastUsed update sets lastUsed of that row to the current time and
\* changes nothing else; it answers Valid only from its account lookup, with
\* the account present and active; its lookups change nothing, and every
\* other outcome is a failure.
C11_VerifyContract ==
  [][ /\ \A w \in Workers :
           (req[w].pc = "idle" /\ req'[w].op = "verify")
           => /\ JwtVerify(req'[w].token)
              /\ \E t \in tokens : /\ t.id = req'[w].tokenId
                                   /\ t.token = req'[w].token
                                   /\ Live(t, now)
              /\ tokens' = tokens /\ users' = users
      /\ \A w \in Workers :
           (At(w, "verify", "verify_touch") /\ req'[w].pc = "verify_user")
           => /\ tokens' = {IF t.id = req[w].tokenId
                              THEN [t EXCEPT !.lastUsed = now'] ELSE t :
                            t \in tokens}
              /\ users' = users
      /\ (resp'.op = "verify" /\ resp'.result = "Valid")
           => \E w \in Workers :
                /\ At(w, "verify", "verify_user") /\ req'[w].pc = "idle"
                /\ \E u \in users : u.id = req[w].token.userId /\ u.isActive
                /\ tokens' = tokens /\ users' = users
      /\ resp'.op = "verify"
           => resp'.result \in {"Valid", "TOKEN_INVALID", "USER_INACTIVE",
                                "STORAGE_ERROR"}
      /\ \A w \in Workers :
           ( /\ At(w, "verify", "verify_user") /\ req'[w].pc = "idle"
             /\ ~\E u \in users : u.id = req[w].token.userId /\ u.isActive )
           => resp'.result = "USER_INACTIVE"
    ]_vars

\* C11 witness: a verification has answered Valid for a token issued half a
\* day earlier, and the row's lastUsed is the current time.
C11_Witness ==
  /\ resp.op = "verify"
  /\ resp.result = "Valid"
  /\ \E t \in tokens : /\ t.id = resp.tokenId
                       /\ t.createdAt < now
                       /\ t.lastUsed = now
                       /\ Live(t, now)

\* C12: the write of forceLogout leaves no token of the account that a
\* verification would find valid, a verification goes past its lookup only
\* for a row that is live, and every login of the registered, active account
\* with its password is granted, whatever device it comes from, with a new
\* live token bound to the processed hash of that device.
C12_RecoveryByForceLogout ==
  [][ /\ \A w \in Workers :
           (At(w, "forceLogout", "force_inv") /\ req'[w].pc = "idle")
           => \A t \in tokens' : t.userId = req[w].userId =>
                 ~\E x \in tokens' : x.token = t.token /\ Live(x, now')
      /\ \A w \in Workers :
           (req[w].pc = "idle" /\ req'[w].pc = "verify_touch")
           => \E t \in tokens : t.token = req'[w].token /\ Live(t, now)
      /\ (resp'.op = "login" /\ resp'.result # "Granted")
           => ~\E u \in users : u.username = "alice"
      /\ \A w \in Workers :
           (At(w, "login", "login_token") /\ req'[w].pc = "idle")
           => /\ resp'.result = "Granted"
              /\ \E t \in tokens' \ tokens :
                   /\ t.id = resp'.tokenId
                   /\ t.userId = req[w].userId
                   /\ t.deviceHash = GenerateDeviceHash(req[w].deviceHash)
                   /\ Live(t, now')
    ]_vars

\* C12 witness: T1, bound to device A, has been ended by forceLogout, and
\* the login from device B that followed has been granted T2.
C12_Witness ==
  /\ resp.op = "login"
  /\ resp.result = "Granted"
  /\ \E t1 \in tokens, t2 \in tokens :
       /\ t1.deviceHash = GenerateDeviceHash(HashA)
       /\ ~t1.isValid
       /\ t2.id = resp.tokenId
       /\ t2.deviceHash = GenerateDeviceHash(HashB)
       /\ Live(t2, now)
       /\ t1.userId = t2.userId
       /\ \A t \in tokens : Live(t, now) => t = t2

\* C13: the step of a login that issues or refuses its token refuses it,
\* creating nothing, while the account has a live token of another device,
\* and grants it otherwise; and the write of logoutFromOtherDevices with
\* device hash h leaves no token of the account on a device other than h
\* live, so that the login from h, retried, is granted.
C13_ConflictResolutionFlow ==
  [][\A w \in Workers :
       /\ (At(w, "login", "login_token") /\ req'[w].pc = "idle")
          => IF \E t \in LiveTokensOf(req[w].userId) :
                   t.deviceHash # GenerateDeviceHash(req[w].deviceHash)
               THEN resp'.result # "Granted" /\ tokens' = tokens
               ELSE resp'.result = "Granted"
       /\ (At(w, "logoutOther", "other_inv") /\ req'[w].pc = "idle")
          => \A t \in tokens' :
               ( /\ t.userId = req[w].userId
                 /\ t.deviceHash # GenerateDeviceHash(req[w].deviceHash) )
               => ~Live(t, now')]_vars

\* a string of at least 32 characters, all of them hexadecimal digits
WellFormedHash(d) ==
  /\ d.type = "string"
  /\ Len(d.value) >= 32
  /\ \A i \in 1..Len(d.value) : d.value[i] \in HexDigits

HashRejections ==
  {"VALIDATION_FAILED", "DEVICE_HASH_REQUIRED", "INVALID_DEVICE_HASH"}

\* C14: isValidDeviceHash accepts exactly the strings of at least 32
\* hexadecimal digits, and so do the checks in front of register and login
\* taken together; a register or login request goes past its first step only
\* with such a device hash, and a request refused for its device hash
\* changes neither the accounts nor the tokens.
C14_DeviceHashFormat ==
  [][ /\ \A d \in AllHashes :
           /\ IsValidDeviceHash(d) <=> WellFormedHash(d)
           /\ (ValidateDeviceHash(d) /\ ~Falsy(d) /\ IsValidDeviceHash(d))
                <=> WellFormedHash(d)
      /\ \A w \in Workers :
           (req[w].pc = "idle" /\ req'[w].op \in {"register", "login"})
           => WellFormedHash(req'[w].deviceHash)
      /\ (resp'.op \in {"register", "login"} /\ resp'.result \in HashRejections)
           => users' = users /\ tokens' = tokens
      /\ \A t \in tokens' \ tokens :
           \E d \in AllHashes : /\ WellFormedHash(d)
                                /\ t.deviceHash = GenerateDeviceHash(d)
    ]_vars

\* C14 witness: a login of the registered account, with its password and an
\* array holding a well-formed hash as device hash, is refused by
\* isValidDeviceHash.
C14_Witness ==
  /\ resp.op = "login"
  /\ resp.result = "INVALID_DEVICE_HASH"
  /\ \E u \in users : u.username = "alice" /\ u.isActive
  /\ tokens # {}

\* C15: a login goes on to issue a token only for an active account that
\* the name given matches and whose password is the one given; a login that
\* is refused leaves the accounts, the tokens and their counters as they
\* were.
C15_RejectedLoginFrame ==
  [][ /\ \A w \in Workers :
           (req[w].pc = "idle" /\ req'[w].pc = "login_token")
           => \E u \in users : /\ u.id = req'[w].userId
                               /\ u.isActive
                               /\ BcryptCompare(req'[w].password, u.password)
      /\ (resp'.op = "login" /\ resp'.result # "Granted")
           => /\ users' = users
              /\ tokens' = tokens
              /\ nextUserId' = nextUserId
              /\ nextTokenId' = nextTokenId
    ]_vars

\* C15 witness: a login with a wrong password has been refused while the
\* account is active and holds a live token.
C15_Witness ==
  /\ resp.op = "login"
  /\ resp.result = "INVALID_CREDENTIALS"
  /\ \E u \in users : u.id = resp.userId /\ u.isActive
  /\ LiveTokensOf(resp.userId) # {}

\* C16: the answer of getActiveSessions for an account has exactly one entry
\* for each of the account's tokens that is valid and unexpired when the
\* rows are read, and no other entry; the deviceId of an entry is not the
\* token's stored deviceHash: it is shorter, and made of the first 8 and the
\* last 8 characters of the hash around three dots.
C16_ActiveSessionsRedacted ==
  [][\A w \in Workers :
       (At(w, "sessions", "sess_find") /\ req'[w].pc = "idle")
       => LET live == LiveTokensOf(req[w].userId)
              entries == resp'.sessions
          IN /\ Cardinality(entries) = Cardinality(live)
             /\ \A t \in live : \E e \in entries : e.id = t.id
             /\ \A e \in entries : \E t \in live :
                  /\ e.id = t.id
                  /\ e.deviceId # t.deviceHash
                  /\ Len(e.deviceId) = 19
                  /\ Len(e.deviceId) < Len(t.deviceHash)
                  /\ \A i \in 1..8 :
                       /\ e.deviceId[i] = t.deviceHash[i]
                       /\ e.deviceId[11 + i] =
                            t.deviceHash[Len(t.deviceHash) - 8 + i]
                  /\ \A i \in 9..11 : e.deviceId[i] = "."]_vars

\* C16 witness: the list of an account that has a live token, an ended
\* token and, next to it, a live token of another account, has one entry.
C16_Witness ==
  /\ resp.op = "sessions"
  /\ Cardinality(resp.sessions) = 1
  /\ \E t \in tokens : t.userId = resp.userId /\ ~t.isValid
  /\ \E t \in tokens : t.userId # resp.userId /\ Live(t, now)

C18_DeleteAccountRemovesTokens ==
  [][/\ \A t \in tokens' : UserExists(t.userId)'
     /\ (resp'.op = "deleteAccount" /\ resp'.result = "OK")
          => /\ \A u \in users' : u.id # resp'.userId
             /\ \A t \in tokens' : t.userId # resp'.userId
     /\ \A w \in Workers :
          (req[w].pc = "idle" /\ req'[w].pc = "verify_touch")
            => UserExists(req'[w].token.userId)
     /\ (resp'.op = "verify" /\ resp'.result = "Valid")
          => UserExists(resp'.userId)]_vars

\* An account with a live token is deleted while another login of it has
\* passed the password check.
C18_Witness ==
  /\ resp.op = "deleteAccount"
  /\ resp.result = "OK"
  /\ ~UserExists(resp.userId)
  /\ \E w \in Workers : /\ At(w, "login", "login_token")
                         /\ req[w].userId = resp.userId

\* C20: the generate-device-hash handler answers a hash exactly when the
\* stored binding validates at that call; when the binding is missing, its
\* fingerprint is not the machine's, or it is older than the maximum age,
\* the answer is an error that carries that reason, and no hash.
C20_HashOnlyWhenBindingValid ==
  [][ipc'.channel = "generate-device-hash" =>
       LET missing == binding = NoBinding
           unreadable == ~missing /\ ~hardware.readable
           mismatch ==
             /\ ~missing /\ ~unreadable
             /\ binding.hardwareFingerprint #
                  Sha256(HardwareData(hardware))
           expired ==
             /\ ~missing /\ ~unreadable /\ ~mismatch
             /\ clock - DateParse(binding.bindTime) > BindingMaxAge
       IN /\ ipc'.ok <=> ~(missing \/ unreadable \/ mismatch \/ expired)
          /\ ipc'.ok <=> ipc'.hash # NoHash
          /\ ipc'.ok <=> ValidateDeviceBinding.isValid
          /\ missing => ipc'.reason = "No device binding found"
          /\ mismatch => ipc'.reason = "Hardware fingerprint mismatch"
          /\ expired => ipc'.reason = "Device binding expired"
          /\ ~ipc'.ok => ipc'.reason # ""]_vars

\* A hash is refused for a binding of this machine that has expired.
C20_Witness ==
  /\ ipc.channel = "generate-device-hash"
  /\ ~ipc.ok
  /\ ipc.hash = NoHash
  /\ ipc.reason = "Device binding expired"
  /\ binding # NoBinding

\* C19: every token row is stored with the salted digest of a well-formed
\* device hash that the register or login being handled submitted, and a
\* request the application sends carries, as its device hash, the digest of
\* the binding, never the deviceId or the hardwareFingerprint themselves.
C19_OnlySaltedDerivative ==
  [][/\ \A t \in tokens' \ tokens :
          \E w \in Workers :
            /\ req[w].pc \in {"reg_token", "login_token"}
            /\ WellFormedHash(req[w].deviceHash)
            /\ t.deviceHash =
                 Sha256(req[w].deviceHash.value \o <<"-">> \o ServerSalt)
            /\ t.deviceHash # req[w].deviceHash.value
     /\ sent'.op # "none" =>
          /\ sent'.op \in {"register", "login", "logout-other-devices"}
          /\ binding' # NoBinding
          /\ sent'.deviceHash.type = "string"
          /\ Len(sent'.deviceHash.value) = DigestLen
          /\ sent'.deviceHash.value # binding'.deviceId
          /\ sent'.deviceHash.value # binding'.hardwareFingerprint]_vars

\* A login the application sent was granted a token, stored with the salted
\* digest of the hash that the request carried.
C19_Witness ==
  /\ resp.op = "login"
  /\ resp.result = "Granted"
  /\ sent.op = "login"
  /\ \E t \in tokens :
       /\ t.id = resp.tokenId
       /\ t.deviceHash = GenerateDeviceHash(sent.deviceHash)

\* C21: validate() answers valid exactly when a binding is stored, its
\* hardwareFingerprint is the fingerprint of the machine's attributes and
\* its age is at most one year; otherwise the reason is the missing binding
\* when none is stored, the mismatch when the fingerprints differ, and the
\* expiry when they are equal and the binding is older than one year.
C21_ValidateContract ==
  [][ipc'.channel = "validate-device-integrity" =>
       LET stored == binding # NoBinding
           same == binding.hardwareFingerprint =
                     Sha256(HardwareData(hardware))
           old == clock - DateParse(binding.bindTime) > BindingMaxAge
       IN /\ ipc'.ok <=> (stored /\ same /\ ~old)
          /\ ~stored => ipc'.reason = "No device binding found"
          /\ (stored /\ ~same) =>
               ipc'.reason = "Hardware fingerprint mismatch"
          /\ (stored /\ same /\ old) =>
               ipc'.reason = "Device binding expired"]_vars

\* C22: a stored binding is replaced or altered by no step other than the
\* reset of the reset-device-binding handler: not by a start of the application
\* (initializeIfNeeded), a validation or a hash, whatever the hardware and
\* the age of the binding.
C22_BindingChangesOnlyByReset ==
  [][(binding # NoBinding /\ binding' # binding) => app' = "resetting"]_vars

\* C23: when the reset has run, no binding is stored, the backup file is
\* absent and validate() reports the missing binding; every stored binding
\* carries a deviceId drawn earlier, and the binding that is created next
\* carries a deviceId that was never drawn before, hence not the one held
\* before the reset.
C23_ResetThenNewDeviceId ==
  [][/\ (app = "running" /\ app' = "resetting") =>
          /\ binding' = NoBinding
          /\ deviceBindingFile' = "absent"
          /\ ~ValidateDeviceBinding'.isValid
          /\ ValidateDeviceBinding'.reason = "No device binding found"
     /\ binding # NoBinding =>
          \E k \in 1..(nextDeviceId - 1) : binding.deviceId = RandomUUID(k)
     /\ (binding = NoBinding /\ binding' # NoBinding) =>
          \A k \in 1..(nextDeviceId - 1) :
            binding'.deviceId # RandomUUID(k)]_vars

\* The reset handler has answered success after it deleted the first binding
\* of the installation and created the second.
C23_Witness ==
  /\ ipc.channel = "reset-device-binding"
  /\ ipc.ok
  /\ nextDeviceId = 3
  /\ binding.deviceId = RandomUUID(2)
  /\ deviceBindingFile = "absent"

\* C24: a call of initializeIfNeeded(), at the start of the application or
\* after a reset, leaves a binding that validates; and when the stored
\* binding validates before the call, the call writes nothing: the binding,
\* hence its deviceId, and the backup file stay as they are.
C24_InitializeIfNeeded ==
  [][((app = "stopped" /\ ipc'.channel = "ready") \/
      (app = "resetting" /\ app' = "running")) =>
       /\ ValidateDeviceBinding'.isValid
       /\ ValidateDeviceBinding.isValid =>
            /\ binding' = binding
            /\ deviceBindingFile' = deviceBindingFile
            /\ nextDeviceId' = nextDeviceId]_vars

\* The MAC addresses of the adapters of hw that are neither internal, nor
\* all zero, nor of a hypervisor.
NonVirtualMacs(hw) ==
  {hw.interfaces[i].mac :
     i \in {j \in DOMAIN hw.interfaces :
              /\ ~hw.interfaces[j].internal
              /\ hw.interfaces[j].mac # ZeroMac
              /\ ~StartsWith(hw.interfaces[j].mac, HyperVPrefix)
              /\ ~StartsWith(hw.interfaces[j].mac, VMwarePrefix)
              /\ ~StartsWith(hw.interfaces[j].mac, VirtualBoxPrefix)}}

\* C25: the fingerprint is a function of the scalar attributes and the set
\* of non-virtual MAC addresses: when what the machine reports changes but
\* these stay the same (another order of enumeration, another list of
\* entries with the same addresses), the fingerprint stays the same.
C25_FingerprintDeterministic ==
  [][(/\ hardware.readable
      /\ hardware'.readable
      /\ hardware'.hostname = hardware.hostname
      /\ NonVirtualMacs(hardware') = NonVirtualMacs(hardware)) =>
       GetHardwareFingerprint(hardware') = GetHardwareFingerprint(hardware)]_vars

\* C26: when the stored binding validates and an attribute that feeds the
\* fingerprint changes (the hostname, or the set of non-virtual MAC
\* addresses), the stored fingerprint is no longer the machine's; and for
\* a stored fingerprint that is not the machine's, validate() answers
\* invalid with the fingerprint mismatch as its reason and
\* generateDeviceHash() gives no hash.
C26_TamperDetection ==
  [][/\ (/\ ValidateDeviceBinding.isValid
         /\ hardware'.readable
         /\ \/ hardware'.hostname # hardware.hostname
            \/ NonVirtualMacs(hardware') # NonVirtualMacs(hardware)) =>
          /\ binding' = binding
          /\ binding'.hardwareFingerprint #
               GetHardwareFingerprint(hardware').value
     /\ (/\ ipc'.channel \in {"validate-device-integrity",
                              "generate-device-hash"}
         /\ binding # NoBinding
         /\ hardware.readable
         /\ binding.hardwareFingerprint #
              GetHardwareFingerprint(hardware).value) =>
          /\ ~ipc'.ok
          /\ ipc'.hash = NoHash
          /\ ipc'.reason = "Hardware fingerprint mismatch"]_vars

\* The machine was renamed under a binding that validated, and the hash
\* asked for next was refused for the mismatch.
C26_Witness ==
  /\ ipc.channel = "generate-device-hash"
  /\ ~ipc.ok
  /\ ipc.hash = NoHash
  /\ ipc.reason = "Hardware fingerprint mismatch"
  /\ hardware.hostname = HostB
  /\ binding.hardwareFingerprint =
       Sha256(HardwareData([hardware EXCEPT !.hostname = HostA]))

\* C27: a hardware attribute that cannot be read does not abort the
\* extractor: getHardwareFingerprint() still gives a digest, validate()
\* completes without a validation error, and the initialisation at start
\* succeeds and leaves a binding.
C27_ExtractorFallbackDigest ==
  [][~hardware.readable =>
       /\ GetHardwareFingerprint(hardware).ok
       /\ (ipc'.channel = "validate-device-integrity" =>
             ipc'.reason # "Validation error")
       /\ (ipc'.channel = "ready" =>
             /\ ipc'.ok
             /\ binding' # NoBinding
             /\ app' = "running")]_vars

\* C28: the application gets its window (app = "running") only in a start
\* whose device-binding initialisation succeeded and left a binding that
\* validates; a start whose initialisation failed ends with the application
\* stopped; and generate-device-hash answers with a hash only while the
\* application runs and the binding validates.
C28_WindowOnlyAfterInitialization ==
  [][/\ (app = "stopped" /\ app' = "running") =>
          /\ ipc'.channel = "ready"
          /\ ipc'.ok
          /\ ValidateDeviceBinding'.isValid
     /\ (ipc'.channel = "ready" /\ ~ipc'.ok) =>
          /\ app' = "stopped"
          /\ binding' = binding
     /\ (ipc'.channel = "generate-device-hash" /\ ipc'.hash # NoHash) =>
          /\ app = "running"
          /\ ValidateDeviceBinding.isValid]_vars

\* The initialisation failed at start and the application is not running.
C28_Witness ==
  /\ app = "stopped"
  /\ ipc.channel = "ready"
  /\ ~ipc.ok
  /\ ipc.reason = "Device security initialization failed"
  /\ ~hardware.readable

\* C29: after the step that grants a login its token, every live token of
\* the account is bound to the processed hash of the device that logged in.
C29_LoginInvalidatesOtherDevices ==
  [][\A w \in Workers :
       ( /\ At(w, "login", "login_token")
         /\ req'[w].pc = "idle"
         /\ resp'.result = "Granted" )
       => \A t \in tokens' :
            (t.userId = req[w].userId /\ Live(t, now')) =>
               t.deviceHash = GenerateDeviceHash(req[w].deviceHash)]_vars

\* C30: a register or login carrying a device hash under whose processed
\* value the server created a token at an earlier time is not granted, and
\* creates no token.
C30_ReplayRejected ==
  [][\A w \in Workers :
       ( /\ \/ At(w, "login", "login_token")
            \/ At(w, "register", "reg_token")
         /\ req'[w].pc = "idle"
         /\ \E t \in tokens :
              /\ t.deviceHash = GenerateDeviceHash(req[w].deviceHash)
              /\ t.createdAt < now )
       => ( /\ resp'.result # "Granted"
            /\ tokens' = tokens )]_vars

\* C31: when accounts and tokens come from registrations only, no device
\* hash has live tokens, bound to its processed value, of two accounts:
\* of the registrations that share a device hash at most one succeeded.
C31_OneRegistrationPerDevice ==
  \A d \in ValidHashes :
    Cardinality({t.userId : t \in DeviceHashMatches(d)}) <= 1

\* C32: a register or login that ends with a storage error leaves no new
\* token, and a register that ends so leaves no account of its own: the
\* account whose row it wrote before the failure is gone.
C32_FailureLeavesNothing ==
  [][\A w \in Workers :
       ( /\ req[w].op \in {"register", "login"}
         /\ req[w].pc # "idle"
         /\ req'[w].pc = "idle"
         /\ resp'.result = "STORAGE_ERROR" )
       => ( /\ tokens' = tokens
            /\ At(w, "register", "reg_token") =>
                 \A u \in users' : u.id # req[w].userId )]_vars

\* C33: a clean-up deletes a token only when it expired at least the
\* retention window ago, or is invalid and was created at least the
\* retention window ago (an invalidation is never earlier than the
\* creation); every other token is still present after the clean-up.
C33_CleanupRespectsRetention ==
  [][resp'.op = "cleanup" =>
       \A t \in tokens \ tokens' :
          \/ t.expiresAt + RetentionWindow <= now
          \/ ~t.isValid /\ t.createdAt + RetentionWindow <= now]_vars

\* An entry that the claim names as not feeding the fingerprint: internal,
\* all zero, or with the prefix of a virtual adapter.
IsExcluded(iface) ==
  \/ iface.internal
  \/ iface.mac = ZeroMac
  \/ \E prefix \in {HyperVPrefix, VMwarePrefix, VirtualBoxPrefix} :
        SubSeq(iface.mac, 1, Len(prefix)) = prefix

\* The entries of the list that are left when the excluded ones are dropped.
RECURSIVE WithoutExcluded(_)
WithoutExcluded(ifaces) ==
  IF ifaces = <<>> THEN <<>>
  ELSE (IF IsExcluded(Head(ifaces)) THEN <<>> ELSE <<Head(ifaces)>>) \o
       WithoutExcluded(Tail(ifaces))

\* C34: when the interface list changes only in entries that are internal,
\* all zero or of a virtual adapter (such entries are added, removed or
\* changed, the other entries stay as they are), the fingerprint stays the
\* same and the stored binding, if it matched the machine before, matches
\* it after; and validate() accepts a binding that matches and is not
\* older than the maximum age.
C34_VirtualAdaptersIgnored ==
  [][/\ (/\ hardware.readable
         /\ hardware'.readable
         /\ hardware'.hostname = hardware.hostname
         /\ hardware'.interfaces # hardware.interfaces
         /\ WithoutExcluded(hardware'.interfaces) =
              WithoutExcluded(hardware.interfaces)) =>
          /\ GetHardwareFingerprint(hardware') =
               GetHardwareFingerprint(hardware)
          /\ ValidateDeviceBinding.isValid =>
               /\ binding' = binding
               /\ clock' = clock
               /\ binding'.hardwareFingerprint =
                    GetHardwareFingerprint(hardware').value
     /\ (/\ ipc'.channel = "validate-device-integrity"
         /\ binding # NoBinding
         /\ hardware.readable
         /\ binding.hardwareFingerprint =
              GetHardwareFingerprint(hardware).value
         /\ clock - DateParse(binding.bindTime) <= BindingMaxAge) =>
          /\ ipc'.ok
          /\ ipc'.reason = ""]_vars

\* The binding of the machine with its one adapter validates on the machine
\* that lists adapters of Hyper-V and VMware next to it.
C34_Witness ==
  /\ ipc.channel = "validate-device-integrity"
  /\ ipc.ok
  /\ hardware.interfaces =
       <<Iface(MacHyperV, FALSE), Iface(MacEth, FALSE),
         Iface(MacVMware, FALSE)>>
  /\ binding # NoBinding
  /\ binding.hardwareFingerprint =
       Sha256(HardwareData([hardware EXCEPT !.interfaces = OneAdapter]))

\* C35: every token that a clean-up deletes is invalid or expired when it
\* is deleted, so for every token string the rows that verify would accept
\* are the same after the clean-up as before.
C35_CleanupKeepsLiveTokens ==
  [][resp'.op = "cleanup" =>
       /\ \A t \in tokens \ tokens' : ~t.isValid \/ t.expiresAt < now
       /\ tokens' \subseteq tokens
       /\ \A tok \in Issued :
            {t \in tokens' : t.token = tok /\ Live(t, now')} =
            {t \in tokens : t.token = tok /\ Live(t, now)}]_vars

\* A clean-up has deleted a token and has left the live token in place.
C35_Witness ==
  /\ resp.op = "cleanup"
  /\ Cardinality(tokens) < nextTokenId - 1
  /\ \E t \in tokens : Live(t, now)

\* The operations that end sessions of the account that calls them.
SessionEndingOps ==
  {"logout", "forceLogout", "logoutOther", "deactivate", "changePassword"}

\* Token row t is in the table after the step with the validity, the expiry
\* and the device hash it had before.
KeepsSession(t) ==
  \E s \in tokens' : /\ s.id = t.id
                      /\ s.userId = t.userId
                      /\ s.token = t.token
                      /\ s.isValid = t.isValid
                      /\ s.expiresAt = t.expiresAt
                      /\ s.deviceHash = t.deviceHash

\* C36: a step of logout, forceLogout, logoutFromOtherDevices,
\* deactivateAccount or changePassword for the account of the token it was
\* called with leaves every token of any other account with the validity,
\* expiry and device hash it had, and the step of logout that invalidates
\* leaves every token that has not the supplied token string as it was.
C36_OtherAccountsUntouched ==
  [][\A w \in Workers :
       /\ ( /\ req[w].op \in SessionEndingOps
            /\ req'[w] # req[w] ) =>
           \A t \in tokens : t.userId # req[w].userId => KeepsSession(t)
       /\ ( /\ req[w].op = "idle"
            /\ req'[w] # req[w]
            /\ resp'.op \in SessionEndingOps \/ req'[w].op \in SessionEndingOps ) =>
           \A t \in tokens : KeepsSession(t)
       /\ ( /\ At(w, "logout", "logout_inv")
            /\ req'[w] # req[w] ) =>
           \A t \in tokens : t.token # req[w].token => t \in tokens']_vars

\* forceLogout has ended every session of its account, and a session of the
\* other account is live.
C36_Witness ==
  /\ resp.op = "forceLogout"
  /\ resp.result = "OK"
  /\ \E t \in tokens : t.userId = resp.userId
  /\ \A t \in tokens : t.userId = resp.userId => ~t.isValid
  /\ \E t \in tokens : t.userId # resp.userId /\ Live(t, now)

\* C37: when logoutFromOtherDevices answers with success (its answer always
\* carries currentDeviceActive: true), the account has a live token bound to
\* the processed hash of the supplied device hash, and the token the caller
\* authenticated with is still valid.
C37_CurrentDeviceActive ==
  [][\A w \in Workers :
       ( /\ At(w, "logoutOther", "other_inv")
         /\ req'[w].pc = "idle"
         /\ resp'.result = "OK" )
       => /\ \E t \in tokens' :
               /\ t.userId = req[w].userId
               /\ t.deviceHash = GenerateDeviceHash(req[w].deviceHash)
               /\ Live(t, now')
          /\ \A t \in tokens' : t.id = req[w].tokenId => t.isValid]_vars

\* C38: when reset-device-binding answers with success, a binding that
\* validates is stored; when it answers with failure, a binding is still
\* stored, and it is the binding that was stored when the handler began.
C38_ResetAllOrNothing ==
  [][ipc'.channel = "reset-device-binding" =>
       IF ipc'.ok
         THEN ValidateDeviceBinding'.isValid
         ELSE /\ binding' # NoBinding
              /\ app = "running" => binding' = binding]_vars

====
